---------------------------- MODULE Spec2Model ----------------------------
(***************************************************************************)
(* A model of the phishing scoring engine (backend/core) and of the two    *)
(* classifier result caches (backend/api/index.py, backend/core/           *)
(* llm_utils.py).                                                          *)
(*                                                                         *)
(* Python strings are sequences of one-character strings, so that the      *)
(* string operations of the code (lower, strip, split, in, endswith,       *)
(* regular expressions) are computed and not assumed.  A non-ASCII code    *)
(* point is one element whose name starts with "U+".  Python's None (for   *)
(* a str | None value) is the one-element tuple None.                      *)
(***************************************************************************)
EXTENDS Integers, Sequences, FiniteSets, TLC

VARIABLES
    headers,        \* score_email input: the header mapping
    body_text,      \* score_email input
    urls,           \* score_email input: list of parsed URLs
    attachments,    \* score_email input: list of attachment names
    outcome,        \* what score_email did: pending, or its result / exception
    lev,            \* banded_levenshtein: its arguments and its result
    now,            \* time.monotonic(), in seconds
    llm_cache,      \* index.py _LLM_CACHE: key -> (timestamp, payload)
    llm_calls,      \* number of invocations of the external classifier (index.py)
    history,        \* the requests served by _get_or_create_llm_result, in order
    heap,           \* llm_utils: the list objects alive in the process (id -> items)
    ttl_cache,      \* llm_utils _CACHE: key -> (expires, stored dict)
    held,           \* llm_utils: the result dicts callers still hold
    probe,          \* llm_utils: what the latest analyze_payloads call observed
    response,       \* index.py: the latest response of an LLM handler
    threads,        \* llm_utils: where each thread calling analyze_payloads is
    kwpos,          \* score_keyword_positions: its arguments and its result
    expl,           \* build_explanations: its arguments and its result
    risk_call,      \* _domain_risk: its arguments and its result
    conf_call,      \* detect_confusable: its arguments and its result
    batch           \* analyze_payloads on a batch: its arguments, the chunks sent, its result

vars == <<headers, body_text, urls, attachments, outcome, lev, now, llm_cache,
          llm_calls, history, heap, ttl_cache, held, probe, response, threads, kwpos, expl,
          risk_call, conf_call, batch>>

None == <<"<None>">>

\* Python truthiness of a str | None value
Truthy(x) == x # None /\ x # <<>>

Min2(a, b) == IF a <= b THEN a ELSE b

Max2(a, b) == IF a >= b THEN a ELSE b

Abs(n) == IF n < 0 THEN -n ELSE n

UpperChars == <<"A","B","C","D","E","F","G","H","I","J","K","L","M","N","O","P","Q","R","S","T","U","V","W","X","Y","Z">>

LowerChars == <<"a","b","c","d","e","f","g","h","i","j","k","l","m","n","o","p","q","r","s","t","u","v","w","x","y","z">>

DigitChars == {"0","1","2","3","4","5","6","7","8","9"}

\* the non-ASCII code points the inputs use (Cyrillic a, e-acute, zero width space)
NonAsciiChars == {"U+0430", "U+00E9", "U+200B"}

WhitespaceChars == {" ", "\t", "\n", "\r"}

IsUpper(c) == \E i \in 1..Len(UpperChars) : UpperChars[i] = c

IsLetter(c) == IsUpper(c) \/ \E i \in 1..Len(LowerChars) : LowerChars[i] = c

\* str.lower() on one character (the non-ASCII code points used have no case)
LowerChar(c) ==
    IF IsUpper(c) THEN LowerChars[CHOOSE i \in 1..Len(UpperChars) : UpperChars[i] = c]
    ELSE c

\* str.lower()
Lower(s) == [i \in 1..Len(s) |-> LowerChar(s[i])]

\* sub in s
Contains(s, sub) ==
    \E i \in 0..(Len(s) - Len(sub)) : SubSeq(s, i + 1, i + Len(sub)) = sub

\* s.find(sub): the 0-based offset of the first occurrence, -1 when there is none
Find(s, sub) ==
    IF Contains(s, sub)
    THEN CHOOSE i \in 0..(Len(s) - Len(sub)) :
            /\ SubSeq(s, i + 1, i + Len(sub)) = sub
            /\ \A j \in 0..(i - 1) : SubSeq(s, j + 1, j + Len(sub)) # sub
    ELSE -1

StartsWith(s, pre) == Len(pre) <= Len(s) /\ SubSeq(s, 1, Len(pre)) = pre

EndsWith(s, suf) == Len(suf) <= Len(s) /\ SubSeq(s, Len(s) - Len(suf) + 1, Len(s)) = suf

\* s.count(c) for a one-character c
CountChar(s, c) == Cardinality({i \in 1..Len(s) : s[i] = c})

\* s.strip(chars)
StripChars(s, chars) ==
    IF \A i \in 1..Len(s) : s[i] \in chars THEN <<>>
    ELSE LET first == CHOOSE i \in 1..Len(s) : s[i] \notin chars /\ \A j \in 1..(i - 1) : s[j] \in chars
             last == CHOOSE i \in 1..Len(s) : s[i] \notin chars /\ \A j \in (i + 1)..Len(s) : s[j] \in chars
         IN SubSeq(s, first, last)

\* s.strip()
Strip(s) == StripChars(s, WhitespaceChars)

\* s.split(c, 1): at most two parts
SplitOnce(s, c) ==
    IF \E i \in 1..Len(s) : s[i] = c
    THEN LET k == CHOOSE i \in 1..Len(s) : s[i] = c /\ \A j \in 1..(i - 1) : s[j] # c
         IN <<SubSeq(s, 1, k - 1), SubSeq(s, k + 1, Len(s))>>
    ELSE <<s>>

RECURSIVE Split(_, _)
\* s.split(c)
Split(s, c) ==
    IF \E i \in 1..Len(s) : s[i] = c
    THEN LET k == CHOOSE i \in 1..Len(s) : s[i] = c /\ \A j \in 1..(i - 1) : s[j] # c
         IN <<SubSeq(s, 1, k - 1)>> \o Split(SubSeq(s, k + 1, Len(s)), c)
    ELSE <<s>>

RECURSIVE Join(_, _)
\* sep.join(parts)
Join(parts, sep) ==
    IF parts = <<>> THEN <<>>
    ELSE IF Len(parts) = 1 THEN parts[1]
    ELSE parts[1] \o sep \o Join(Tail(parts), sep)

\* s.replace(c, '') for a one-character c
RemoveChar(s, c) == SelectSeq(s, LAMBDA x : x # c)

\* s.isdigit()
IsDigitStr(s) == s # <<>> /\ \A i \in 1..Len(s) : s[i] \in DigitChars

\* a sequence of n copies of c
Repeat(c, n) == [i \in 1..n |-> c]

RECURSIVE SumSeq(_)
SumSeq(ns) == IF ns = <<>> THEN 0 ELSE Head(ns) + SumSeq(Tail(ns))

DigitSeq == <<"0","1","2","3","4","5","6","7","8","9">>

RECURSIVE IntToStr(_)
\* str(n) for n >= 0
IntToStr(n) == IF n < 10 THEN <<DigitSeq[n + 1]>> ELSE IntToStr(n \div 10) \o <<DigitSeq[(n % 10) + 1]>>

\* x in xs, for a list
InSeq(x, xs) == \E i \in 1..Len(xs) : xs[i] = x

(***************************************************************************)
(* backend/core/helpers.py                                                 *)
(***************************************************************************)
_PUBLIC_SUFFIX_3 ==
    {<<"a","c",".","u","k">>, <<"c","o",".","u","k">>, <<"g","o","v",".","u","k">>, <<"g","o","v",".","a","u">>, <<"c","o","m",".","a","u">>, <<"c","o",".","j","p">>, <<"c","o","m",".","b","r">>, <<"c","o","m",".","m","x">>}

_strip_port(domain) ==
    LET candidate == Lower(Strip(domain))
    IN  IF candidate = <<>> THEN <<>>
        ELSE IF StartsWith(candidate, <<"[">>) /\ EndsWith(candidate, <<"]">>)
             THEN SubSeq(candidate, 2, Len(candidate) - 1)
        ELSE StripChars(IF InSeq(":", candidate) THEN SplitOnce(candidate, ":")[1] ELSE candidate,
                        {"."})

\* registrable_domain past its first two lines: host is _strip_port(domain)
RegistrableOfHost(host) ==
    IF host = <<>> \/ IsDigitStr(RemoveChar(host, "."))
    THEN (IF host = <<>> THEN None ELSE host)
    ELSE LET labels == Split(host, ".")
             n == Len(labels)
             suffix_two == Join(SubSeq(labels, n - 1, n), <<".">>)
         IN  IF n <= 2 THEN host
             ELSE IF suffix_two \in _PUBLIC_SUFFIX_3 /\ n >= 3
                  THEN Join(SubSeq(labels, n - 2, n), <<".">>)
             ELSE suffix_two

registrable_domain(domain) ==
    IF ~Truthy(domain) THEN None ELSE RegistrableOfHost(_strip_port(domain))

\* norm_domain past its first two lines: cleaned is _strip_port(domain)
NormOfCleaned(cleaned, keep_subdomains) ==
    IF cleaned = <<>> THEN None
    ELSE IF keep_subdomains THEN cleaned
    ELSE registrable_domain(cleaned)

norm_domain(domain, keep_subdomains) ==
    IF ~Truthy(domain) THEN None ELSE NormOfCleaned(_strip_port(domain), keep_subdomains)

\* headers.get(key, default) of a mapping
HeaderGet(h, key, default) == IF key \in DOMAIN h THEN h[key] ELSE default

\* email.utils.parseaddr(headers.get(key, ''))[1]: an address header's value is
\* kept as the pair (display name, addr-spec) that parseaddr splits it into
ParseAddr1(h, key) == IF key \in DOMAIN h THEN h[key].addr ELSE <<>>

parse_core_addresses(h) ==
    LET from_addr == ParseAddr1(h, "from")
        reply_to == ParseAddr1(h, "reply-to")
        return_path == ParseAddr1(h, "return-path")
    IN  <<IF from_addr = <<>> THEN None ELSE from_addr,
          IF reply_to = <<>> THEN None ELSE reply_to,
          IF return_path = <<>> THEN None ELSE return_path>>

(***************************************************************************)
(* backend/core/text.py, with lowercase, strip_accents and                 *)
(* collapse_whitespace all True, as every caller in core passes them       *)
(***************************************************************************)
\* _strip_control_characters: \n, \r, \t become a space, other Cc/Cf/Cs go
_strip_control_characters(text) ==
    LET kept == SelectSeq(text, LAMBDA c : c # "U+200B")
    IN  [i \in 1..Len(kept) |-> IF kept[i] \in {"\n", "\r", "\t"} THEN " " ELSE kept[i]]

\* _strip_accents: NFKD, then the combining marks dropped
_strip_accents(text) == [i \in 1..Len(text) |-> IF text[i] = "U+00E9" THEN "e" ELSE text[i]]

\* _WHITESPACE_RE.sub(" ", text): every run of whitespace becomes one space
CollapseWhitespace(text) ==
    LET indexed == [i \in 1..Len(text) |-> <<i, text[i]>>]
        kept == SelectSeq(indexed, LAMBDA p :
                    \/ p[2] \notin WhitespaceChars
                    \/ p[1] = 1
                    \/ text[p[1] - 1] \notin WhitespaceChars)
    IN  [i \in 1..Len(kept) |-> IF kept[i][2] \in WhitespaceChars THEN " " ELSE kept[i][2]]

normalize_text(text) ==
    IF ~Truthy(text) THEN <<>>
    ELSE Strip(CollapseWhitespace(Lower(_strip_accents(_strip_control_characters(text)))))

\* [A-Za-z0-9']
IsTokenChar(c) == IsLetter(c) \/ c \in DigitChars \/ c = "'"

RECURSIVE TokenFindAll(_)
\* _TOKEN_RE.findall(cleaned): the maximal runs of token characters
TokenFindAll(s) ==
    IF s = <<>> THEN <<>>
    ELSE IF ~IsTokenChar(Head(s)) THEN TokenFindAll(Tail(s))
    ELSE LET n == IF \A i \in 1..Len(s) : IsTokenChar(s[i]) THEN Len(s)
                  ELSE (CHOOSE i \in 1..Len(s) :
                            ~IsTokenChar(s[i]) /\ \A j \in 1..(i - 1) : IsTokenChar(s[j])) - 1
         IN  <<SubSeq(s, 1, n)>> \o TokenFindAll(SubSeq(s, n + 1, Len(s)))

\* tokenize_words(text, lowercase=True, min_length=1)
tokenize_words(text) ==
    LET cleaned == normalize_text(text)
    IN  IF cleaned = <<>> THEN <<>>
        ELSE SelectSeq(TokenFindAll(cleaned), LAMBDA token : Len(token) >= 1)

(***************************************************************************)
(* backend/core/edit_distance.py.  A result int | None is a set: {} for    *)
(* None, {d} for the distance d; max_distance is {} for None, {k} for k.   *)
(* max_distance is never negative here (a negative one raises ValueError   *)
(* once both strings are non-empty and differ).                            *)
(***************************************************************************)
Min3(x, y, z) == Min2(x, Min2(y, z))

RECURSIVE LevFill(_, _, _, _, _, _, _)
\* the inner loop: for j in range(start, end + 1), filling current[j]
LevFill(a, b, i, j, end, previous, current) ==
    IF j > end THEN current
    ELSE LET cost == IF a[i] = b[j] THEN 0 ELSE 1
             deletion == previous[j] + 1
             insertion == current[j - 1] + 1
             substitution == previous[j - 1] + cost
         IN  LevFill(a, b, i, j + 1, end, previous,
                     [current EXCEPT ![j] = Min3(deletion, insertion, substitution)])

\* a variant that returns the last cell whatever the cutoff: return distance
FinalCutoffOff(distance, max_distance) == {distance}

\* if max_distance is not None and distance > max_distance: return None
\* return distance
FinalCutoff(distance, max_distance) ==
    IF max_distance # {} /\ \A k \in max_distance : distance > k THEN {} ELSE {distance}

RECURSIVE LevRows(_, _, _, _, _, _, _)
\* the outer loop: for i in range(1, len_a + 1), with the early exit of the band
LevRows(a, b, max_distance, band, inf, i, previous) ==
    IF i > Len(a)
    THEN FinalCutoff(previous[Len(b)], max_distance)
    ELSE LET start == Max2(1, i - band)
             end == Min2(Len(b), i + band)
             fresh == [j \in 0..Len(b) |-> IF j = 0 /\ i <= band THEN i ELSE inf]
             current == LevFill(a, b, i, start, end, previous, fresh)
             window_start == Max2(0, start - 1)
         IN  IF max_distance # {}
                /\ \A k \in max_distance : \A j \in window_start..end : current[j] > k
             THEN {}
             ELSE LevRows(a, b, max_distance, band, inf, i + 1, current)

banded_levenshtein(a0, b0, max_distance) ==
    IF a0 = b0 THEN {0}
    ELSE IF a0 = <<>>
         THEN (IF max_distance = {} \/ \A k \in max_distance : Len(b0) <= k THEN {Len(b0)} ELSE {})
    ELSE IF b0 = <<>>
         THEN (IF max_distance = {} \/ \A k \in max_distance : Len(a0) <= k THEN {Len(a0)} ELSE {})
    ELSE IF max_distance # {} /\ \A k \in max_distance : Abs(Len(a0) - Len(b0)) > k THEN {}
    ELSE LET band == IF max_distance # {} THEN CHOOSE k \in max_distance : TRUE
                     ELSE Max2(Len(a0), Len(b0))
             a == IF Len(a0) > Len(b0) THEN b0 ELSE a0
             b == IF Len(a0) > Len(b0) THEN a0 ELSE b0
             inf == (IF max_distance # {} THEN CHOOSE k \in max_distance : TRUE
                     ELSE Len(a) + Len(b)) + 1
             previous == [j \in 0..Len(b) |->
                            IF j = 0 THEN 0 ELSE IF j <= Min2(Len(b), band) THEN j ELSE inf]
         IN  LevRows(a, b, max_distance, band, inf, 1, previous)

\* the candidates within max_distance of domain, in the candidates' order
fuzzy_domain_matches(domain, candidates, max_distance) ==
    IF RemoveChar(normalize_text(domain), " ") = <<>> THEN <<>>
    ELSE SelectSeq(candidates, LAMBDA candidate :
             /\ RemoveChar(normalize_text(candidate), " ") # <<>>
             /\ \/ RemoveChar(normalize_text(candidate), " ") = RemoveChar(normalize_text(domain), " ")
                \/ banded_levenshtein(RemoveChar(normalize_text(domain), " "),
                                      RemoveChar(normalize_text(candidate), " "),
                                      {max_distance}) # {})

\* the window loop of fuzzy_brand_mentions for a brand of several words:
\* some window of token_count tokens equals the brand or is within max_distance
BrandWindowMatches(tokens, brand_norm, window, max_distance) ==
    \E idx \in 0..(Len(tokens) - window) :
        LET candidate == Join(SubSeq(tokens, idx + 1, idx + window), <<" ">>)
        IN  candidate = brand_norm \/ banded_levenshtein(candidate, brand_norm, {max_distance}) # {}

RECURSIVE BrandLoop(_, _, _, _, _)
\* for brand in brands: the matches list, with the seen set of normalised brands
BrandLoop(tokens, brands, max_distance, matches, seen) ==
    IF brands = <<>> THEN matches
    ELSE LET brand == Head(brands)
             brand_norm == normalize_text(brand)
             brand_tokens == Split(brand_norm, " ")
             token_count == Len(brand_tokens)
             hit == IF token_count = 1
                    THEN \E t \in 1..Len(tokens) :
                            \/ tokens[t] = brand_tokens[1]
                            \/ banded_levenshtein(tokens[t], brand_tokens[1], {max_distance}) # {}
                    ELSE BrandWindowMatches(tokens, brand_norm, token_count, max_distance)
         IN  IF brand_norm = <<>> \/ brand_norm \in seen
             THEN BrandLoop(tokens, Tail(brands), max_distance, matches, seen)
             ELSE IF hit
                  THEN BrandLoop(tokens, Tail(brands), max_distance,
                                 Append(matches, brand), seen \cup {brand_norm})
             ELSE BrandLoop(tokens, Tail(brands), max_distance, matches, seen)

fuzzy_brand_mentions(text, brands, max_distance) ==
    LET tokens == tokenize_words(text)
    IN  IF tokens = <<>> THEN <<>> ELSE BrandLoop(tokens, brands, max_distance, <<>>, {})

(***************************************************************************)
(* backend/core/identity_checks.py                                         *)
(***************************************************************************)
\* _load_brand_lists()[0]: src holds no data/known_brands.txt, which leaves the
\* fallback brands, in their order
_known_brand_names ==
    <<<<"p","a","y","p","a","l">>, <<"e","b","a","y">>, <<"a","m","a","z","o","n">>, <<"a","p","p","l","e">>, <<"m","i","c","r","o","s","o","f","t">>, <<"b","a","n","k"," ","o","f"," ","a","m","e","r","i","c","a">>, <<"c","h","a","s","e"," ","b","a","n","k">>>>

\* _load_brand_lists()[1]: the domains of the fallback brands, in their order
_known_brand_domains ==
    <<<<"p","a","y","p","a","l",".","c","o","m">>, <<"e","b","a","y",".","c","o","m">>, <<"a","m","a","z","o","n",".","c","o","m">>, <<"a","p","p","l","e",".","c","o","m">>, <<"m","i","c","r","o","s","o","f","t",".","c","o","m">>,
      <<"b","a","n","k","o","f","a","m","e","r","i","c","a",".","c","o","m">>, <<"c","h","a","s","e",".","c","o","m">>>>

\* the matched brand domains, or <<>> for None
domain_similar_to_brand(domain, max_distance) ==
    fuzzy_domain_matches(domain, _known_brand_domains, max_distance)

\* the reason, or <<>> for False
is_idn_or_confusable(domain) ==
    IF ~Truthy(domain) THEN <<>>
    ELSE IF Contains(domain, <<"x","n","-","-">>) THEN <<"x","n","-","-"," ","p","r","e","f","i","x">>
    ELSE IF \E i \in 1..Len(domain) : domain[i] \in NonAsciiChars THEN <<"n","o","n","-","A","S","C","I","I"," ","c","h","a","r","a","c","t","e","r","s">>
    ELSE <<>>

is_freemx(domain) == domain \in {<<"g","m","a","i","l",".","c","o","m">>, <<"y","a","h","o","o",".","c","o","m">>, <<"h","o","t","m","a","i","l",".","c","o","m">>}

\* the matched brands, or <<>> for None
mentions_brand(subj, body, max_distance) ==
    LET text == (IF Truthy(subj) THEN subj ELSE <<>>) \o <<" ">> \o (IF Truthy(body) THEN body ELSE <<>>)
    IN  fuzzy_brand_mentions(text, _known_brand_names, max_distance)

(***************************************************************************)
(* backend/core/routing_checks.py                                          *)
(***************************************************************************)
\* the anomaly's description, or <<>> for False
received_anomaly(received_headers) ==
    LET long_headers == SelectSeq(received_headers, LAMBDA r : Len(r) > 1000)
    IN  IF Len(received_headers) > 5 THEN IntToStr(Len(received_headers)) \o <<" ","h","e","a","d","e","r","s"," ","(",">","5",")">>
        ELSE IF long_headers # <<>>
             THEN IntToStr(Len(long_headers)) \o <<" ","h","e","a","d","e","r","(","s",")"," ","w","i","t","h"," ","l","e","n","g","t","h"," ",">","1","0","0","0">>
        ELSE <<>>

\* [\w.-]
IsMsgidDomainChar(c) ==
    IsLetter(c) \/ c \in DigitChars \/ c \in {"_", ".", "-"} \/ c = "U+0430" \/ c = "U+00E9"

\* re.search(r'@([\w.-]+)', msgid): group 1 of the leftmost match, <<>> for no match
MsgidDomainGroup(msgid) ==
    IF \E i \in 1..(Len(msgid) - 1) : msgid[i] = "@" /\ IsMsgidDomainChar(msgid[i + 1])
    THEN LET at == CHOOSE i \in 1..(Len(msgid) - 1) :
                       /\ msgid[i] = "@" /\ IsMsgidDomainChar(msgid[i + 1])
                       /\ \A j \in 1..(i - 1) : ~(msgid[j] = "@" /\ IsMsgidDomainChar(msgid[j + 1]))
             last == CHOOSE e \in (at + 1)..Len(msgid) :
                       /\ \A j \in (at + 1)..e : IsMsgidDomainChar(msgid[j])
                       /\ (e = Len(msgid) \/ ~IsMsgidDomainChar(msgid[e + 1]))
         IN  SubSeq(msgid, at + 1, last)
    ELSE <<>>

\* return msgid_dom if msgid_dom != from_dom else None
MismatchOf(msgid_dom, from_dom) == IF msgid_dom # from_dom THEN msgid_dom ELSE None

msgid_domain_mismatch(msgid, from_dom) ==
    IF ~Truthy(msgid) \/ ~Truthy(from_dom) THEN None
    ELSE IF MsgidDomainGroup(msgid) # <<>>
         THEN MismatchOf(norm_domain(MsgidDomainGroup(msgid), FALSE), from_dom)
    ELSE None

(***************************************************************************)
(* backend/core/attachment_checks.py                                       *)
(***************************************************************************)
is_dangerous(att) ==
    IF Truthy(att)
    THEN \E ext \in {<<".","e","x","e">>, <<".","s","c","r">>, <<".","p","i","f">>} : EndsWith(Lower(att), ext)
    ELSE FALSE

archive_name_suspicious(att) ==
    IF Truthy(att) /\ \E ext \in {<<".","z","i","p">>, <<".","r","a","r">>, <<".","7","z">>} : EndsWith(Lower(att), ext)
    THEN Len(att) > 100
    ELSE FALSE

(***************************************************************************)
(* backend/core/position.py                                                *)
(***************************************************************************)
EARLY_BODY_WINDOW == 400

BASE_KEYWORD_POINTS == 1

SUBJECT_BONUS == 2

EARLY_BODY_BONUS == 1

KeywordHit(keyword, location, points, offset) ==
    [keyword |-> keyword, location |-> location, points |-> points, offset |-> offset]

_normalize(text) == Lower(IF Truthy(text) THEN text ELSE <<>>)

_find_offset(haystack, needle) == Find(haystack, needle)

\* a variant that appends the keyword to matched on every hit
record_hit_always(acc, keyword, location, points, offset, signature) ==
    [total_points |-> acc.total_points + points,
     matched |-> Append(acc.matched, keyword),
     hits |-> Append(acc.hits, KeywordHit(keyword, location, points, offset)),
     seen |-> acc.seen \cup {signature}]

\* record_hit: acc is the closure's state (total_points, matched, hits, seen)
record_hit(acc, keyword, location, points, offset, signature) ==
    [total_points |-> acc.total_points + points,
     matched |-> IF signature \notin acc.seen THEN Append(acc.matched, keyword) ELSE acc.matched,
     hits |-> Append(acc.hits, KeywordHit(keyword, location, points, offset)),
     seen |-> acc.seen \cup {signature}]

RECURSIVE KeywordLoop(_, _, _, _, _, _)
\* for keyword in keywords
KeywordLoop(keywords, subject_norm, early_span, late_span, early_body_window, acc) ==
    IF keywords = <<>> THEN acc
    ELSE LET keyword == Head(keywords)
             kw_norm == Lower(keyword)
             rest == Tail(keywords)
         IN  IF kw_norm = <<>>
             THEN KeywordLoop(rest, subject_norm, early_span, late_span, early_body_window, acc)
             ELSE IF Contains(subject_norm, kw_norm)
                  THEN KeywordLoop(rest, subject_norm, early_span, late_span, early_body_window,
                           record_hit(acc, keyword, "subject", BASE_KEYWORD_POINTS + SUBJECT_BONUS,
                                      _find_offset(subject_norm, kw_norm), kw_norm))
             ELSE IF Contains(early_span, kw_norm)
                  THEN KeywordLoop(rest, subject_norm, early_span, late_span, early_body_window,
                           record_hit(acc, keyword, "early_body", BASE_KEYWORD_POINTS + EARLY_BODY_BONUS,
                                      _find_offset(early_span, kw_norm), kw_norm))
             ELSE IF Contains(late_span, kw_norm)
                  THEN LET offset == _find_offset(late_span, kw_norm)
                       IN  KeywordLoop(rest, subject_norm, early_span, late_span, early_body_window,
                               record_hit(acc, keyword, "body", BASE_KEYWORD_POINTS,
                                          IF offset >= 0 THEN offset + early_body_window ELSE offset,
                                          kw_norm))
             ELSE KeywordLoop(rest, subject_norm, early_span, late_span, early_body_window, acc)

\* returns [total_points, matched, hits] (seen is the function's local)
score_keyword_positions(subject, body, keywords, early_body_window) ==
    LET subject_norm == _normalize(subject)
        body_norm == _normalize(body)
        early_span == SubSeq(body_norm, 1, Min2(early_body_window, Len(body_norm)))
        late_span == SubSeq(body_norm, early_body_window + 1, Len(body_norm))
    IN  KeywordLoop(keywords, subject_norm, early_span, late_span, early_body_window,
                    [total_points |-> 0, matched |-> <<>>, hits |-> <<>>, seen |-> {}])

(***************************************************************************)
(* backend/core/lexical_score.py                                           *)
(***************************************************************************)
FALLBACK_KEYWORDS ==
    <<<<"u","r","g","e","n","t">>, <<"c","l","i","c","k"," ","h","e","r","e">>, <<"v","e","r","i","f","y">>, <<"l","o","g","i","n">>, <<"p","a","s","s","w","o","r","d">>, <<"a","c","c","o","u","n","t">>>>

\* src holds no data/suspicious_terms.txt: _load_terms_from_file returns []
_default_keywords == FALLBACK_KEYWORDS

\* lexical_score(subject, body) with keywords=None
lexical_score(subject, body) ==
    score_keyword_positions(subject, body, _default_keywords, EARLY_BODY_WINDOW)

(***************************************************************************)
(* backend/core/url_checks.py.  A parsed URL (urllib's ParseResult) is the *)
(* record of the fields the code reads: scheme, hostname (None when the    *)
(* URL has no netloc), path, query.                                        *)
(***************************************************************************)
WHITELIST_DOMAINS ==
    {<<"e","n","r","o","n",".","c","o","m">>, <<"g","m","a","i","l",".","c","o","m">>, <<"y","a","h","o","o",".","c","o","m">>, <<"h","o","t","m","a","i","l",".","c","o","m">>, <<"o","u","t","l","o","o","k",".","c","o","m">>,
     <<"m","i","c","r","o","s","o","f","t",".","c","o","m">>, <<"a","p","p","l","e",".","c","o","m">>, <<"g","o","o","g","l","e",".","c","o","m">>}

TRUSTED_CONTENT_DOMAINS ==
    {<<"l","i","n","k","e","d","i","n",".","c","o","m">>, <<"f","a","c","e","b","o","o","k",".","c","o","m">>, <<"i","n","s","t","a","g","r","a","m",".","c","o","m">>, <<"t","w","i","t","t","e","r",".","c","o","m">>, <<"p","i","n","t","e","r","e","s","t",".","c","o","m">>,
     <<"g","i","t","h","u","b",".","c","o","m">>, <<"g","i","t","l","a","b",".","c","o","m">>, <<"f","i","g","m","a",".","c","o","m">>, <<"d","r","o","p","b","o","x",".","c","o","m">>, <<"b","o","x",".","c","o","m">>,
     <<"s","a","l","e","s","f","o","r","c","e",".","c","o","m">>, <<"z","e","n","d","e","s","k",".","c","o","m">>, <<"n","o","t","i","o","n",".","s","o">>, <<"m","e","d","i","u","m",".","c","o","m">>, <<"s","l","a","c","k",".","c","o","m">>}

_TRUSTED_BASES == WHITELIST_DOMAINS \cup TRUSTED_CONTENT_DOMAINS

_HIGH_RISK_TLDS ==
    {<<".","t","k">>, <<".","m","l">>, <<".","g","a">>, <<".","c","f">>, <<".","g","q">>, <<".","x","y","z">>, <<".","t","o","p">>, <<".","c","l","i","c","k">>, <<".","c","o","u","n","t","r","y">>}

_SHORTENER_HOSTS ==
    {<<"b","i","t",".","l","y">>, <<"t","i","n","y","u","r","l",".","c","o","m">>, <<"t",".","c","o">>, <<"o","w",".","l","y">>, <<"b","u","f","f",".","l","y">>, <<"r","e","b","r","a","n","d",".","l","y">>, <<"g","o","o",".","g","l">>, <<"r","b",".","g","y">>}

_PRIMARY_CRED_KEYWORDS == {<<"l","o","g","i","n">>, <<"s","i","g","n","i","n">>, <<"p","a","s","s","w","o","r","d">>, <<"c","r","e","d","e","n","t","i","a","l">>}

_SECONDARY_CRED_KEYWORDS ==
    {<<"v","e","r","i","f","y">>, <<"s","e","c","u","r","e">>, <<"u","p","d","a","t","e">>, <<"a","u","t","h">>, <<"t","o","k","e","n">>, <<"r","e","s","e","t">>, <<"c","o","n","f","i","r","m">>}

\* ParseResult.geturl()
geturl(url) ==
    (IF url.scheme # <<>> THEN url.scheme \o <<":","/","/">> ELSE <<>>)
    \o (IF url.hostname # None THEN url.hostname ELSE <<>>)
    \o url.path
    \o (IF url.query # <<>> THEN <<"?">> \o url.query ELSE <<>>)

is_high_risk_tld(host) ==
    IF ~Truthy(host) THEN FALSE ELSE \E tld \in _HIGH_RISK_TLDS : EndsWith(host, tld)

is_shortener(host) ==
    IF ~Truthy(host) THEN FALSE ELSE Lower(host) \in _SHORTENER_HOSTS

_credential_harvest_score(path, query) ==
    LET parts == SelectSeq(<<path, query>>, LAMBDA p : Truthy(p))
        combined == Lower(Join(parts, <<" ">>))
        primary_hits == Cardinality({kw \in _PRIMARY_CRED_KEYWORDS : Contains(combined, kw)})
        secondary_hits == Cardinality({kw \in _SECONDARY_CRED_KEYWORDS : Contains(combined, kw)})
    IN  IF combined = <<>> THEN 0
        ELSE IF primary_hits = 0 THEN 0
        ELSE Min2(1 + Min2(primary_hits - 1, 1) + Min2(secondary_hits, 1), 3)

\* re.search(r'\d{3,}', host_lower)
HasDigitRun(s) ==
    \E i \in 1..(Len(s) - 2) : s[i] \in DigitChars /\ s[i + 1] \in DigitChars /\ s[i + 2] \in DigitChars

\* the decision of _domain_risk for a truthy host, from its locals host_lower,
\* reg and sender_base
DomainRiskOf(host_lower, reg, sender_base) ==
    LET base == IF Truthy(reg) THEN reg ELSE host_lower
        suspicious_structure ==
            \/ HasDigitRun(host_lower)
            \/ CountChar(host_lower, "-") >= 2
            \/ StartsWith(host_lower, <<"x","n","-","-">>)
            \/ CountChar(host_lower, ".") >= 3
    IN  IF base \in _TRUSTED_BASES THEN [risk |-> 0, reason |-> None]
        ELSE IF Truthy(sender_base) /\ (base = sender_base \/ EndsWith(host_lower, sender_base))
             THEN [risk |-> 0, reason |-> None]
        ELSE IF suspicious_structure
             THEN [risk |-> 2, reason |-> <<"U","n","f","a","m","i","l","i","a","r"," ","d","o","m","a","i","n"," ","s","t","r","u","c","t","u","r","e">>]
        ELSE IF Truthy(sender_base)
             THEN [risk |-> 1, reason |-> <<"D","o","m","a","i","n"," ","d","i","f","f","e","r","s"," ","f","r","o","m"," ","s","e","n","d","e","r">>]
        ELSE [risk |-> 0, reason |-> None]

\* returns [risk, reason], reason None when there is none
_domain_risk(host, sender_domain) ==
    IF ~Truthy(host) THEN [risk |-> 0, reason |-> None]
    ELSE DomainRiskOf(Lower(host), registrable_domain(Lower(host)),
                      IF Truthy(sender_domain) THEN registrable_domain(sender_domain) ELSE None)

\* a variant that reports the raw risk: 'score': risk
ClampUrlRiskRaw(risk) == risk

\* 'score': min(risk, 6)
ClampUrlRisk(risk) == Min2(risk, 6)

\* the finding built from the four signals of url, as a list of zero or one
\* finding
FindingFor(url, dr, tld, short, cred_score) ==
    LET reasons == (IF Truthy(dr.reason) THEN <<dr.reason>> ELSE <<>>)
                   \o (IF tld THEN <<<<"H","i","g","h","-","r","i","s","k"," ","T","L","D">>>> ELSE <<>>)
                   \o (IF short THEN <<<<"U","R","L"," ","s","h","o","r","t","e","n","e","r">>>> ELSE <<>>)
                   \o (IF cred_score # 0 THEN <<<<"C","r","e","d","e","n","t","i","a","l","-","r","e","l","a","t","e","d"," ","t","e","r","m","s"," ","i","n"," ","U","R","L">>>> ELSE <<>>)
        risk == dr.risk + (IF tld THEN 2 ELSE 0) + (IF short THEN 2 ELSE 0) + cred_score
    IN  IF risk # 0
        THEN <<[url |-> url, reasons |-> reasons, score |-> ClampUrlRisk(risk)]>>
        ELSE <<>>

\* one iteration of check_urls past the fingerprint test
UrlFinding(url, sender_domain) ==
    FindingFor(url, _domain_risk(url.hostname, sender_domain), is_high_risk_tld(url.hostname),
               is_shortener(url.hostname), _credential_harvest_score(url.path, url.query))

RECURSIVE CheckUrlsLoop(_, _, _, _)
\* for url in urls, with the seen set of fingerprints
CheckUrlsLoop(us, sender_domain, seen, findings) ==
    IF us = <<>> THEN findings
    ELSE LET url == Head(us)
             fingerprint == <<url.scheme, url.hostname, url.path, url.query>>
         IN  IF fingerprint \in seen
             THEN CheckUrlsLoop(Tail(us), sender_domain, seen, findings)
             ELSE CheckUrlsLoop(Tail(us), sender_domain, seen \cup {fingerprint},
                                findings \o UrlFinding(url, sender_domain))

check_urls(us, sender_domain) == CheckUrlsLoop(us, sender_domain, {}, <<>>)

(***************************************************************************)
(* backend/core/scoring.py.  An entry of the explanations list is the      *)
(* record of what its f-string is built from: the signed points written    *)
(* after the sign, the unit word, the fixed text and the interpolated      *)
(* values.  acc is the pair of locals (score, explanations).               *)
(***************************************************************************)
\* a variant whose HIGH threshold is strict: if score > 10
label_from_strict(score) ==
    IF score > 10 THEN "HIGH"
    ELSE IF score >= 5 THEN "MEDIUM"
    ELSE "LOW"

label_from(score) ==
    IF score >= 10 THEN "HIGH"
    ELSE IF score >= 5 THEN "MEDIUM"
    ELSE "LOW"

_address_domains(address) ==
    IF ~Truthy(address) \/ ~InSeq("@", address) THEN <<None, None>>
    ELSE LET host == SplitOnce(address, "@")[2]
         IN  <<norm_domain(host, TRUE), norm_domain(host, FALSE)>>

Entry(delta, unit, text, args) == [delta |-> delta, unit |-> unit, text |-> text, args |-> args]

\* score += n; explanations.append(...)
Add(acc, n, unit, text, args) ==
    [score |-> acc.score + n, explanations |-> Append(acc.explanations, Entry(n, unit, text, args))]

\* a variant whose Reply-To check does not ask for a From domain
IdentityChecks_without_from(acc, h, body, from_host, from_dom, reply_dom, return_dom) ==
    LET a1 == IF Truthy(reply_dom) /\ reply_dom # from_dom
              THEN Add(acc, 3, "points", "Reply-to domain differs from From domain", <<reply_dom>>)
              ELSE acc
        a2 == IF Truthy(return_dom) /\ Truthy(from_dom) /\ return_dom # from_dom
              THEN Add(a1, 2, "points", "Return-path domain differs from From domain", <<return_dom>>)
              ELSE a1
        confusable_target == IF Truthy(from_host) THEN from_host ELSE from_dom
        reason == is_idn_or_confusable(confusable_target)
        a3 == IF Truthy(confusable_target) /\ Truthy(reason)
              THEN Add(a2, 3, "points", "From domain contains IDN or confusable characters",
                       <<reason, confusable_target>>)
              ELSE a2
        mentioned_brands == mentions_brand(HeaderGet(h, "subject", <<>>), body, 1)
    IN  IF Truthy(from_dom) /\ is_freemx(from_dom) /\ mentioned_brands # <<>>
        THEN Add(a3, 2, "points", "Free email provider with brand mention",
                 <<from_dom, Join(mentioned_brands, <<","," ">>)>>)
        ELSE a3

\* # Identity (lines 46-68)
IdentityChecks(acc, h, body, from_host, from_dom, reply_dom, return_dom) ==
    LET a1 == IF Truthy(reply_dom) /\ Truthy(from_dom) /\ reply_dom # from_dom
              THEN Add(acc, 3, "points", "Reply-to domain differs from From domain", <<reply_dom>>)
              ELSE acc
        a2 == IF Truthy(return_dom) /\ Truthy(from_dom) /\ return_dom # from_dom
              THEN Add(a1, 2, "points", "Return-path domain differs from From domain", <<return_dom>>)
              ELSE a1
        confusable_target == IF Truthy(from_host) THEN from_host ELSE from_dom
        reason == is_idn_or_confusable(confusable_target)
        a3 == IF Truthy(confusable_target) /\ Truthy(reason)
              THEN Add(a2, 3, "points", "From domain contains IDN or confusable characters",
                       <<reason, confusable_target>>)
              ELSE a2
        mentioned_brands == mentions_brand(HeaderGet(h, "subject", <<>>), body, 1)
    IN  IF Truthy(from_dom) /\ is_freemx(from_dom) /\ mentioned_brands # <<>>
        THEN Add(a3, 2, "points", "Free email provider with brand mention",
                 <<from_dom, Join(mentioned_brands, <<","," ">>)>>)
        ELSE a3

\* the Received values of a dict of headers (lines 71-82): the header's value is
\* [list |-> items] for a list or tuple, [str |-> text] for a string
ReceivedValues(h) ==
    IF "received" \notin DOMAIN h THEN <<>>
    ELSE IF "list" \in DOMAIN h["received"] THEN h["received"].list
    ELSE IF h["received"].str # <<>> THEN <<h["received"].str>>
    ELSE <<>>

\* lines 83-86: the Received anomaly
ReceivedStep(acc, received_values, anomaly_reason) ==
    IF received_values # <<>> /\ anomaly_reason # <<>>
    THEN Add(acc, 2, "points", "Anomalous Received headers", <<anomaly_reason>>)
    ELSE acc

\* lines 88-90: the Message-ID domain
MsgidStep(acc, mismatched_msgid_dom) ==
    IF Truthy(mismatched_msgid_dom)
    THEN Add(acc, 1, "point", "Message-ID domain mismatch", <<mismatched_msgid_dom>>)
    ELSE acc

\* # Routing (lines 83-90)
RoutingChecks(acc, h, from_dom) ==
    MsgidStep(ReceivedStep(acc, ReceivedValues(h), received_anomaly(ReceivedValues(h))),
              msgid_domain_mismatch(HeaderGet(h, "message-id", None), from_dom))

\* ', '.join(matched_descriptions): the items are lexical_score's third result,
\* KeywordHit objects, and str.join raises TypeError on the first item that is
\* not a str
JoinOfHitsRaises(matched_descriptions) == matched_descriptions # <<>>

\* # Lexical (lines 93-100); raised is set when line 97 raises
LexicalStep(acc, lex) ==
    IF lex.total_points # 0
    THEN IF lex.hits # <<>> /\ JoinOfHitsRaises(lex.hits)
         THEN [raised |-> TRUE, acc |-> acc]
         ELSE [raised |-> FALSE,
               acc |-> Add(acc, lex.total_points, "points", "Matched phishing language",
                           <<Join(lex.matched, <<","," ">>)>>)]
    ELSE [raised |-> FALSE, acc |-> acc]

RECURSIVE HitEntries(_)
\* for hit in pos_hits: explanations.append(...)
HitEntries(pos_hits) ==
    IF pos_hits = <<>> THEN <<>>
    ELSE LET hit == Head(pos_hits)
             loc == IF hit.location = "subject" THEN <<"s","u","b","j","e","c","t">>
                    ELSE IF hit.location = "early_body" THEN <<"e","a","r","l","y"," ","b","o","d","y">> ELSE <<"b","o","d","y">>
         IN  <<Entry(hit.points, "points", "Keyword in", <<hit.keyword, loc>>)>>
             \o HitEntries(Tail(pos_hits))

\* # Keyword position weighting (lines 103-109)
PositionStep(acc, h, body, matched_phrases) ==
    IF matched_phrases # <<>>
    THEN LET pos == score_keyword_positions(HeaderGet(h, "subject", <<>>), body, matched_phrases,
                                            EARLY_BODY_WINDOW)
         IN  IF pos.total_points # 0
             THEN [score |-> acc.score + pos.total_points,
                   explanations |-> acc.explanations \o HitEntries(pos.hits)]
             ELSE acc
    ELSE acc

RECURSIVE UrlPointsLoop(_, _, _)
\* # URLs (lines 113-131): for finding in suspicious_urls
UrlPointsLoop(findings, url_points_applied, acc) ==
    IF findings = <<>> THEN acc
    ELSE LET finding == Head(findings)
             raw_points == finding.score
             capped == Min2(raw_points, 4)
             applied == IF url_points_applied + capped > 8
                        THEN Max2(0, 8 - url_points_applied)
                        ELSE capped
         IN  IF raw_points <= 0 \/ applied <= 0
             THEN UrlPointsLoop(Tail(findings), url_points_applied, acc)
             ELSE UrlPointsLoop(Tail(findings), url_points_applied + applied,
                      Add(acc, applied, "points", "Suspicious URL",
                          <<geturl(finding.url), Join(finding.reasons, <<";"," ">>)>>))

RECURSIVE AttachmentLoop(_, _)
\* # Attachments (lines 134-140): for att in attachments
AttachmentLoop(atts, acc) ==
    IF atts = <<>> THEN acc
    ELSE LET att == Head(atts)
             a1 == IF is_dangerous(att)
                   THEN Add(acc, 4, "points", "Dangerous attachment extension in", <<att>>)
                   ELSE acc
             a2 == IF archive_name_suspicious(att)
                   THEN Add(a1, 2, "points", "Suspicious archive attachment", <<att>>)
                   ELSE a1
         IN  AttachmentLoop(Tail(atts), a2)

\* a variant without the floor: score -= 4
WhitelistFloorUnfloored(acc, from_dom) ==
    IF from_dom \in WHITELIST_DOMAINS /\ acc.score > 0
    THEN [score |-> acc.score - 4,
          explanations |-> Append(acc.explanations, Entry(-4, "points", "in whitelist", <<from_dom>>))]
    ELSE acc

\* # Whitelist floor (lines 143-145)
WhitelistFloor(acc, from_dom) ==
    IF from_dom \in WHITELIST_DOMAINS /\ acc.score > 0
    THEN [score |-> Max2(0, acc.score - 4),
          explanations |-> Append(acc.explanations, Entry(-4, "points", "in whitelist", <<from_dom>>))]
    ELSE acc

\* the return statement (line 147), or the exception of line 97
Outcome(raised, acc, matched_keywords, suspicious_urls) ==
    IF raised
    THEN [status |-> "raised", exception |-> "TypeError"]
    ELSE [status |-> "returned",
          label |-> label_from(acc.score),
          score |-> acc.score,
          explanations |-> acc.explanations,
          matched_keywords |-> matched_keywords,
          suspicious_urls |-> suspicious_urls]

\* a variant that runs the attachment loop before the URL loop
ScoreAfterLexical_attachments_first(h, body, atts, from_dom, step3, lex, suspicious_urls) ==
    Outcome(step3.raised,
            WhitelistFloor(
                UrlPointsLoop(suspicious_urls, 0,
                    AttachmentLoop(atts,
                        PositionStep(step3.acc, h, body, lex.matched))),
                from_dom),
            lex.matched, suspicious_urls)

\* lines 103-147, from step3, what the lexical step (lines 93-100) left
ScoreAfterLexical(h, body, atts, from_dom, step3, lex, suspicious_urls) ==
    Outcome(step3.raised,
            WhitelistFloor(
                AttachmentLoop(atts,
                    UrlPointsLoop(suspicious_urls, 0,
                        PositionStep(step3.acc, h, body, lex.matched))),
                from_dom),
            lex.matched, suspicious_urls)

\* lines 46-147 of score_email, from the locals of lines 39-44 and the results
\* of lexical_score and check_urls
ScoreFrom(h, body, atts, from_d, reply_d, return_d, lex, suspicious_urls) ==
    ScoreAfterLexical(h, body, atts, from_d[2],
        LexicalStep(
            RoutingChecks(
                IdentityChecks([score |-> 0, explanations |-> <<>>], h, body,
                               from_d[1], from_d[2], reply_d[2], return_d[2]),
                h, from_d[2]),
            lex),
        lex, suspicious_urls)

\* what a call does: it returns the 5-tuple, or raises
score_email(h, body, us, atts) ==
    ScoreFrom(h, body, atts,
              _address_domains(parse_core_addresses(h)[1]),
              _address_domains(parse_core_addresses(h)[2]),
              _address_domains(parse_core_addresses(h)[3]),
              lexical_score(HeaderGet(h, "subject", <<>>), body),
              check_urls(us, _address_domains(parse_core_addresses(h)[1])[1]))

(***************************************************************************)
(* The emails score_email is applied to                                    *)
(***************************************************************************)
MaxUrls == 3

MaxAttachments == 2

Addr(display, addr) == [display |-> display, addr |-> addr]

FromChoices ==
    {Addr(<<"A","l","e","r","t","s">>, <<"a","l","e","r","t","s","@","e","x","a","m","p","l","e",".","c","o","m">>),
     Addr(<<"I","T">>, <<"i","t","@","M","a","i","l",".","E","x","a","m","p","l","e",".","C","O","M",":","2","5">>),
     Addr(<<"U","s","e","r">>, <<"u","s","e","r","@","g","m","a","i","l",".","c","o","m">>),
     Addr(<<"P","a","y","P","a","l">>, <<"s","v","c","@","x","n","-","-","p","y","p","a","l","-","4","v","e",".","c","o","m">>)}

ReplyToChoices ==
    {Addr(<<"B","i","l","l","i","n","g">>, <<"b","i","l","l","i","n","g","@","f","r","a","u","d",".","n","e","t">>), Addr(<<"A","l","e","r","t","s">>, <<"a","l","e","r","t","s","@","e","x","a","m","p","l","e",".","c","o","m">>)}

ReturnPathChoices ==
    {Addr(<<>>, <<"a","l","e","r","t","s","@","e","x","a","m","p","l","e",".","c","o","m">>), Addr(<<>>, <<"b","o","u","n","c","e","@","m","x",".","s","h","o","p",".","c","o",".","u","k">>)}

MessageIdChoices == {<<"<","1","2","3","4","@","e","x","a","m","p","l","e",".","c","o","m",">">>, <<"<","1","2","3","4","@","o","t","h","e","r",".","n","e","t",">">>}

ShortReceived == <<"f","r","o","m"," ","m","a","i","l",".","e","x","a","m","p","l","e",".","c","o","m"," ","(","m","a","i","l",".","e","x","a","m","p","l","e",".","c","o","m"," ","[","1","9","8",".","5","1",".","1","0","0",".","1","0","]",")">>

ReceivedChoices ==
    {[str |-> ShortReceived],
     [list |-> [i \in 1..6 |-> ShortReceived]],
     [list |-> <<ShortReceived, Repeat("x", 1001)>>]}

SubjectChoices == {<<"M","e","e","t","i","n","g"," ","f","o","l","l","o","w","-","u","p">>, <<"U","R","G","E","N","T"," ","b","i","l","l","i","n","g"," ","u","p","d","a","t","e">>}

BodyChoices ==
    {<<"T","h","a","n","k","s"," ","f","o","r"," ","t","h","e"," ","m","e","e","t","i","n","g",".">>,
     <<"Y","o","u","r"," ","P","a","y","p","a","1"," ","i","n","v","o","i","c","e"," ","i","s"," ","a","t","t","a","c","h","e","d">>,
     Repeat("A", EARLY_BODY_WINDOW + 5) \o <<" ","l","o","g","i","n"," ">>}

UrlPool ==
    {[scheme |-> <<"h","t","t","p">>, hostname |-> <<"e","v","i","l","-","s","i","t","e","-","1","2","3","4",".","t","k">>, path |-> <<"/","s","i","g","n","i","n","/","p","a","s","s","w","o","r","d">>, query |-> <<"v","e","r","i","f","y","=","1">>],
     [scheme |-> <<"h","t","t","p","s">>, hostname |-> <<"a",".","x","y","z">>, path |-> <<"/","l","o","g","i","n">>, query |-> <<>>],
     [scheme |-> <<"h","t","t","p">>, hostname |-> <<"b","i","t",".","l","y">>, path |-> <<"/","x">>, query |-> <<>>],
     [scheme |-> <<"h","t","t","p","s">>, hostname |-> <<"c","d","n",".","g","i","t","h","u","b",".","c","o","m">>, path |-> <<"/">>, query |-> <<>>],
     [scheme |-> <<>>, hostname |-> None, path |-> <<"w","w","w",".","e","x","a","m","p","l","e",".","c","o","m","/","l","o","g","i","n">>, query |-> <<"t","o","k","e","n","=","r","e","s","e","t">>]}

AttachmentPool ==
    {<<"I","n","v","o","i","c","e",".","E","X","E">>, <<"m","i","n","u","t","e","s",".","p","d","f">>, Repeat("a", 100) \o <<".","z","i","p">>, <<>>}

\* the lists of at most n elements of S
SeqsUpTo(S, n) == UNION {[1..k -> S] : k \in 0..n}

\* a mapping with the keys given: absent keys are not in its domain
Headers(from, reply, ret, msgid, recv, subj) ==
    [k \in {x \in {"from", "reply-to", "return-path", "message-id", "received", "subject"} :
               \/ x = "from" /\ from # {}
               \/ x = "reply-to" /\ reply # {}
               \/ x = "return-path" /\ ret # {}
               \/ x = "message-id" /\ msgid # {}
               \/ x = "received" /\ recv # {}
               \/ x = "subject" /\ subj # {}} |->
        CASE k = "from" -> CHOOSE v \in from : TRUE
          [] k = "reply-to" -> CHOOSE v \in reply : TRUE
          [] k = "return-path" -> CHOOSE v \in ret : TRUE
          [] k = "message-id" -> CHOOSE v \in msgid : TRUE
          [] k = "received" -> CHOOSE v \in recv : TRUE
          [] k = "subject" -> CHOOSE v \in subj : TRUE]

\* {} (the header is absent) or {v} for each value v
Optional(S) == {{}} \cup {{v} : v \in S}

\* emails that vary the headers and the text, without URLs or attachments
HeaderEmails ==
    /\ headers \in {Headers(f, r, p, m, rc, s) :
                       f \in Optional(FromChoices), r \in Optional(ReplyToChoices),
                       p \in Optional(ReturnPathChoices), m \in Optional(MessageIdChoices),
                       rc \in Optional(ReceivedChoices), s \in Optional(SubjectChoices)}
    /\ body_text \in BodyChoices
    /\ urls = <<>>
    /\ attachments = <<>>

\* emails that vary the URLs and the attachments
LinkEmails ==
    /\ headers \in {Headers(f, {}, {}, m, {}, {}) :
                       f \in {{Addr(<<"A","l","e","r","t","s">>, <<"a","l","e","r","t","s","@","e","x","a","m","p","l","e",".","c","o","m">>)},
                              {Addr(<<"U","s","e","r">>, <<"u","s","e","r","@","g","m","a","i","l",".","c","o","m">>)},
                              {Addr(<<"S","e","r","v","i","c","e">>, <<"s","e","r","v","i","c","e","@","p","a","y","p","o","l",".","c","o","m">>)},
                              {Addr(<<"P","a","y","P","a","l">>, <<"s","v","c","@","x","n","-","-","p","y","p","a","l","-","4","v","e",".","c","o","m">>)}, {}},
                       m \in {{}, {<<"<","1","2","3","4","@","o","t","h","e","r",".","n","e","t",">">>}}}
    /\ body_text = <<"T","h","a","n","k","s"," ","f","o","r"," ","t","h","e"," ","m","e","e","t","i","n","g",".">>
    /\ \/ urls \in SeqsUpTo(UrlPool, MaxUrls) /\ attachments = <<>>
       \/ urls \in SeqsUpTo(UrlPool, 1) /\ attachments \in SeqsUpTo(AttachmentPool, MaxAttachments)

\* emails that vary the three address headers, with addresses that yield no
\* domain among them (no '@', nothing after the '@')
AddressEmails ==
    /\ headers \in {Headers(f, r, p, {}, {}, {}) :
                       f \in Optional(FromChoices \cup {Addr(<<"I","T">>, <<"p","o","s","t","m","a","s","t","e","r">>)}),
                       r \in Optional(ReplyToChoices
                                         \cup {Addr(<<"B","i","l","l","i","n","g">>, <<"b","i","l","l","i","n","g">>), Addr(<<>>, <<"b","i","l","l","i","n","g","@">>),
                                               Addr(<<>>, <<"i","t","@","m","a","i","l",".","e","x","a","m","p","l","e",".","c","o","m">>)}),
                       p \in Optional(ReturnPathChoices
                                         \cup {Addr(<<>>, <<"b","o","u","n","c","e">>), Addr(<<>>, <<"b","o","u","n","c","e","@","l","o","c","a","l","h","o","s","t">>)})}
    /\ body_text = <<"T","h","a","n","k","s"," ","f","o","r"," ","t","h","e"," ","m","e","e","t","i","n","g",".">>
    /\ urls = <<>>
    /\ attachments = <<>>

ScoreIdle ==
    /\ headers = <<>>
    /\ body_text = <<>>
    /\ urls = <<>>
    /\ attachments = <<>>
    /\ outcome = [status |-> "pending"]

LevIdle == lev = [a |-> <<>>, b |-> <<>>, k |-> 0, status |-> "idle", result |-> {}]

IndexIdle ==
    /\ now = 0
    /\ llm_cache = <<>>
    /\ llm_calls = 0
    /\ history = <<>>

PayloadIdle ==
    /\ heap = <<>>
    /\ ttl_cache = <<>>
    /\ held = <<>>
    /\ probe = <<>>

ResponseIdle == response = [seq |-> 0]

ThreadsIdle == threads = <<>>

PosIdle == kwpos = [status |-> "idle"]

ExplIdle == expl = [status |-> "idle"]

RiskIdle == risk_call = [status |-> "idle"]

ConfIdle == conf_call = [status |-> "idle"]

BatchIdle == batch = [status |-> "idle"]

Init ==
    /\ HeaderEmails \/ LinkEmails \/ AddressEmails
    /\ outcome = [status |-> "pending"]
    /\ LevIdle
    /\ IndexIdle
    /\ PayloadIdle
    /\ ResponseIdle
    /\ RiskIdle
    /\ ConfIdle
    /\ BatchIdle
    /\ ThreadsIdle
    /\ PosIdle
    /\ ExplIdle

\* a call score_email(headers, body_text, urls, attachments)
ScoreEmail ==
    /\ outcome.status = "pending"
    /\ outcome' = score_email(headers, body_text, urls, attachments)
    /\ UNCHANGED <<risk_call, conf_call, batch>>
    /\ UNCHANGED <<response, threads, kwpos, expl>>
    /\ UNCHANGED <<headers, body_text, urls, attachments, lev, now, llm_cache, llm_calls,
                   history, heap, ttl_cache, held, probe>>

Next == ScoreEmail

Spec == Init /\ [][Next]_vars

(***************************************************************************)
(* Properties of score_email                                               *)
(***************************************************************************)
Returned == outcome.status = "returned"

\* the registrable From domain score_email computes
FromDom == _address_domains(parse_core_addresses(headers)[1])[2]

\* the signed points of the entries of an explanations list
Deltas(entries) == [i \in 1..Len(entries) |-> entries[i].delta]

WhitelistEntries(entries) == SelectSeq(entries, LAMBDA e : e.text = "in whitelist")

\* the score before the whitelist adjustment: the points of every other entry
RunningScore(entries) ==
    SumSeq(Deltas(SelectSeq(entries, LAMBDA e : e.text # "in whitelist")))

UrlPoints(entries) ==
    SumSeq(Deltas(SelectSeq(entries, LAMBDA e : e.text = "Suspicious URL")))

\* C1: whenever score_email returns, the returned score equals the sum of the
\* signed points of the returned explanation entries, the whitelist entry
\* included.
C1_ScoreIsSumOfDeltas ==
    Returned => outcome.score = SumSeq(Deltas(outcome.explanations))

\* C2: when the From registrable domain is whitelisted and the running score is
\* > 0, the returned score is max(0, running score - 4) and exactly one
\* whitelist entry is appended (last); otherwise the running score is returned
\* unchanged with no whitelist entry.  The returned score is never negative.
C2_WhitelistFloor ==
    Returned =>
        LET entries == outcome.explanations
            running == RunningScore(entries)
        IN  /\ outcome.score >= 0
            /\ IF FromDom \in WHITELIST_DOMAINS /\ running > 0
               THEN /\ outcome.score = Max2(0, running - 4)
                    /\ Len(WhitelistEntries(entries)) = 1
                    /\ entries[Len(entries)].text = "in whitelist"
               ELSE /\ outcome.score = running
                    /\ WhitelistEntries(entries) = <<>>

\* a whitelisted sender whose running score of 1..3 is floored at 0
C2_Witness ==
    /\ Returned
    /\ FromDom \in WHITELIST_DOMAINS
    /\ RunningScore(outcome.explanations) \in 1..3
    /\ outcome.score = 0
    /\ Len(WhitelistEntries(outcome.explanations)) = 1

MaxScore == 40

LabelRank(label) == IF label = "HIGH" THEN 2 ELSE IF label = "MEDIUM" THEN 1 ELSE 0

\* C3: label_from(score) is HIGH iff score >= 10, MEDIUM iff 5 <= score < 10,
\* LOW otherwise, hence monotonic in the score; and the label score_email
\* returns is label_from of the score it returns.
C3_LabelThresholds ==
    /\ \A s \in (0 - MaxScore)..MaxScore :
          /\ label_from(s) = "HIGH" <=> s >= 10
          /\ label_from(s) = "MEDIUM" <=> (5 <= s /\ s < 10)
          /\ label_from(s) = "LOW" <=> s < 5
          /\ \A t \in s..MaxScore : LabelRank(label_from(s)) <= LabelRank(label_from(t))
    /\ Returned =>
          /\ outcome.label = label_from(outcome.score)
          /\ outcome.label = "HIGH" <=> outcome.score >= 10
          /\ outcome.label = "MEDIUM" <=> (5 <= outcome.score /\ outcome.score < 10)
          /\ outcome.label = "LOW" <=> outcome.score < 5

\* score_email returned a score on the HIGH boundary
C3_Witness == Returned /\ outcome.score = 10 /\ outcome.label = "HIGH"

\* C7: every per-URL score check_urls returns is an integer in 0..6, and the URL
\* points score_email adds never exceed 8, whatever the number of suspicious
\* URLs.
C7_UrlBounds ==
    LET findings == check_urls(urls, _address_domains(parse_core_addresses(headers)[1])[1])
    IN  /\ \A i \in 1..Len(findings) : findings[i].score \in 0..6
        /\ Returned =>
              /\ outcome.suspicious_urls = findings
              /\ UrlPoints(outcome.explanations) <= 8

\* three suspicious URLs, one of raw risk above 6, whose points meet the cap
C7_Witness ==
    /\ Returned
    /\ Len(outcome.suspicious_urls) >= 3
    /\ \E i \in 1..Len(outcome.suspicious_urls) :
          /\ outcome.suspicious_urls[i].score = 6
          /\ _domain_risk(outcome.suspicious_urls[i].url.hostname, None).risk
               + (IF is_high_risk_tld(outcome.suspicious_urls[i].url.hostname) THEN 2 ELSE 0)
               + _credential_harvest_score(outcome.suspicious_urls[i].url.path,
                                           outcome.suspicious_urls[i].url.query) > 6
    /\ SumSeq([i \in 1..Len(outcome.suspicious_urls) |-> outcome.suspicious_urls[i].score]) > 8
    /\ UrlPoints(outcome.explanations) = 8

\* the domains of an address header, or agreement when the header is absent
HeaderDomAgrees(key) ==
    key \in DOMAIN headers => _address_domains(headers[key].addr)[2] = FromDom

\* an email whose From, Reply-To, Return-Path and Message-ID domains agree, with
\* no keyword occurrence, no URL and no attachment (and nothing else that scores:
\* no Received anomaly, no confusable From domain)
BenignEmail ==
    /\ {"from", "reply-to", "return-path", "message-id"} \subseteq DOMAIN headers
    /\ Truthy(FromDom)
    /\ HeaderDomAgrees("reply-to")
    /\ HeaderDomAgrees("return-path")
    /\ msgid_domain_mismatch(headers["message-id"], FromDom) = None
    /\ lexical_score(HeaderGet(headers, "subject", <<>>), body_text).hits = <<>>
    /\ urls = <<>>
    /\ attachments = <<>>
    /\ received_anomaly(ReceivedValues(headers)) = <<>>
    /\ is_idn_or_confusable(_address_domains(headers["from"].addr)[1]) = <<>>

\* C8: for a benign email score_email succeeds with label LOW, score 0, no
\* matched keyword, no URL finding, and explanations that contain the default
\* "no strong phishing indicators" line.
C8_BenignEmailResult ==
    (BenignEmail /\ outcome.status # "pending") =>
        /\ Returned
        /\ outcome.label = "LOW"
        /\ outcome.score = 0
        /\ outcome.matched_keywords = <<>>
        /\ outcome.suspicious_urls = <<>>
        /\ \E i \in 1..Len(outcome.explanations) :
              outcome.explanations[i].text = "No strong phishing indicators were detected"

\* what score_email does return for a benign email: everything C8 says except
\* that explanations is empty
C8_BenignEmailObserved ==
    /\ BenignEmail
    /\ Returned
    /\ outcome.label = "LOW"
    /\ outcome.score = 0
    /\ outcome.matched_keywords = <<>>
    /\ outcome.suspicious_urls = <<>>
    /\ outcome.explanations = <<>>

\* the keywords the subject holds and the body does not
SubjectOnlyKeywords ==
    {i \in 1..Len(_default_keywords) :
        /\ Contains(_normalize(HeaderGet(headers, "subject", <<>>)), Lower(_default_keywords[i]))
        /\ ~Contains(_normalize(body_text), Lower(_default_keywords[i]))}

\* one keyword, in the subject only, in an email with no other signal
SubjectKeywordOnlyEmail ==
    /\ Cardinality(SubjectOnlyKeywords) = 1
    /\ Len(lexical_score(HeaderGet(headers, "subject", <<>>), body_text).hits) = 1
    /\ DOMAIN headers \subseteq {"from", "subject"}
    /\ is_idn_or_confusable(_address_domains(ParseAddr1(headers, "from"))[1]) = <<>>
    /\ FromDom \notin WHITELIST_DOMAINS
    /\ urls = <<>>
    /\ attachments = <<>>

\* C9: for a keyword that occurs only in the subject of an email with no other
\* signal, score_keyword_positions returns exactly one KeywordHit, with location
\* subject and points 3, and score_email returns a total of exactly 3 with that
\* keyword as the only matched keyword.
C9_SubjectKeywordScoresThree ==
    (SubjectKeywordOnlyEmail /\ outcome.status # "pending") =>
        LET kw == _default_keywords[CHOOSE i \in SubjectOnlyKeywords : TRUE]
            pos == score_keyword_positions(HeaderGet(headers, "subject", <<>>), body_text,
                                           _default_keywords, EARLY_BODY_WINDOW)
        IN  /\ Len(pos.hits) = 1
            /\ pos.hits[1].keyword = kw
            /\ pos.hits[1].location = "subject"
            /\ pos.hits[1].points = 3
            /\ Returned
            /\ outcome.score = 3
            /\ outcome.matched_keywords = <<kw>>

\* the part of C9 about score_keyword_positions alone
C9_PositionsPart ==
    SubjectKeywordOnlyEmail =>
        LET pos == score_keyword_positions(HeaderGet(headers, "subject", <<>>), body_text,
                                           _default_keywords, EARLY_BODY_WINDOW)
        IN  /\ Len(pos.hits) = 1
            /\ pos.hits[1].location = "subject"
            /\ pos.hits[1].points = 3
            /\ pos.total_points = 3

\* C10: score_email returns normally and never raises, whatever headers are
\* present or absent and whatever keywords, URLs and attachment names occur.
C10_NeverRaises == outcome.status # "raised"

\* the calls that raise are exactly those where a keyword matched
C10_RaisesIffKeywordMatched ==
    outcome.status # "pending" =>
        (outcome.status = "raised"
            <=> lexical_score(HeaderGet(headers, "subject", <<>>), body_text).hits # <<>>)

\* a call on a subject-keyword-only email raised
C9_Witness == SubjectKeywordOnlyEmail /\ outcome.status = "raised"

\* a call raised although the inputs were a dict of str headers, a str body, a
\* list of parsed URLs and a list of names
C10_Witness ==
    /\ outcome.status = "raised"
    /\ lexical_score(HeaderGet(headers, "subject", <<>>), body_text).total_points > 0

(***************************************************************************)
(* Brand-domain similarity in score_email                                  *)
(***************************************************************************)
\* the registrable From, Reply-To and Return-Path domains score_email computes
CoreDoms ==
    {_address_domains(parse_core_addresses(headers)[i])[2] : i \in 1..3}

\* the address domains within edit distance 1 of a known brand domain
BrandLikeDoms == {d \in CoreDoms : Truthy(d) /\ domain_similar_to_brand(d, 1) # <<>>}

\* an entry of +3 that names the domain d and a brand domain it resembles
IsBrandSimilarityEntry(e, d) ==
    /\ e.delta = 3
    /\ InSeq(d, e.args)
    /\ \E i \in 1..Len(domain_similar_to_brand(d, 1)) :
           InSeq(domain_similar_to_brand(d, 1)[i], e.args)

\* C11: whenever score_email returns, each distinct domain among the From,
\* Reply-To and Return-Path domains that is within edit distance 1 of a known
\* brand domain has its own +3 finding naming the domain and the brand domain.
C11_BrandDomainFinding ==
    Returned =>
        \A d \in BrandLikeDoms :
            \E i \in 1..Len(outcome.explanations) :
                IsBrandSimilarityEntry(outcome.explanations[i], d)

\* score_email has returned for From service@paypol.com, one edit from paypal.com
C11_Witness ==
    /\ Returned
    /\ FromDom = <<"p","a","y","p","o","l",".","c","o","m">>
    /\ domain_similar_to_brand(FromDom, 1) = <<<<"p","a","y","p","a","l",".","c","o","m">>>>


\* the fingerprint check_urls tells URLs apart by
Fingerprint(url) == <<url.scheme, url.hostname, url.path, url.query>>

\* no two findings are for the same fingerprint
OneFindingPerFingerprint(findings) ==
    \A i, j \in 1..Len(findings) :
        Fingerprint(findings[i].url) = Fingerprint(findings[j].url) => i = j

\* the per-URL risk scores of the findings, added up
FindingsTotal(findings) == SumSeq([i \in 1..Len(findings) |-> findings[i].score])

\* C23: the URL points score_email adds are min(8, the sum of the per-URL risk
\* scores of the findings check_urls returns), and check_urls returns one
\* finding per distinct (scheme, host, path, query) fingerprint.
C23_UrlContribution ==
    Returned =>
        /\ OneFindingPerFingerprint(outcome.suspicious_urls)
        /\ UrlPoints(outcome.explanations) = Min2(8, FindingsTotal(outcome.suspicious_urls))

\* score_email returned for one suspicious URL of risk score above 4
C23_Witness ==
    /\ Returned
    /\ Len(outcome.suspicious_urls) = 1
    /\ outcome.suspicious_urls[1].score > 4
    /\ UrlPoints(outcome.explanations) = 4

\* what the code does keep: each finding counts for at most 4 points, and the
\* points added are min(8, the sum of those)
UrlContributionOfCappedFindings ==
    Returned =>
        /\ OneFindingPerFingerprint(outcome.suspicious_urls)
        /\ UrlPoints(outcome.explanations) =
              Min2(8, SumSeq([i \in 1..Len(outcome.suspicious_urls) |->
                                 Min2(4, outcome.suspicious_urls[i].score)]))

\* ---------------------------------------------------------------------------
\* score_email: the Reply-To and Return-Path checks
\* ---------------------------------------------------------------------------

\* the registrable domain the address of a header yields, None when the header is
\* absent, its address has no '@' or nothing usable follows the '@'
DomainYielded(key) ==
    IF key \notin DOMAIN headers THEN None
    ELSE IF ~InSeq("@", headers[key].addr) THEN None
    ELSE norm_domain(SplitOnce(headers[key].addr, "@")[2], FALSE)

\* both addresses yield a registrable domain and the two differ
DiffersFromFrom(key) ==
    /\ DomainYielded(key) # None
    /\ DomainYielded("from") # None
    /\ DomainYielded(key) # DomainYielded("from")

\* the signed points of the entries of one kind
PointsOfKind(entries, text) ==
    SumSeq(Deltas(SelectSeq(entries, LAMBDA e : e.text = text)))

ReplyToPoints == PointsOfKind(outcome.explanations, "Reply-to domain differs from From domain")

ReturnPathPoints == PointsOfKind(outcome.explanations, "Return-path domain differs from From domain")

\* C25: the Reply-To check contributes +3 iff the From and the Reply-To address
\* both yield a registrable domain and the two differ, the Return-Path check +2
\* under the same condition on Return-Path, each independently of the other; a
\* missing or unparseable address contributes 0, and a call raises only where
\* keywords matched, never because of an address.
C25_AddressChecks ==
    /\ Returned =>
          /\ ReplyToPoints = (IF DiffersFromFrom("reply-to") THEN 3 ELSE 0)
          /\ ReturnPathPoints = (IF DiffersFromFrom("return-path") THEN 2 ELSE 0)
    /\ outcome.status = "raised" =>
          lexical_score(HeaderGet(headers, "subject", <<>>), body_text).hits # <<>>

\* a call returned with both contributions, +3 and +2
C25_Witness ==
    /\ Returned
    /\ ReplyToPoints = 3
    /\ ReturnPathPoints = 2

\* a call returned for an email whose Reply-To has no '@' and whose Return-Path
\* differs from From
C25_WitnessUnparseable ==
    /\ Returned
    /\ "reply-to" \in DOMAIN headers
    /\ ~InSeq("@", headers["reply-to"].addr)
    /\ ReplyToPoints = 0
    /\ ReturnPathPoints = 2

\* ---------------------------------------------------------------------------
\* score_email: the order of the entries
\* ---------------------------------------------------------------------------

\* the place of an entry's kind in the fixed order
OrderRank(entry) ==
    CASE entry.text = "Reply-to domain differs from From domain" -> 1
      [] entry.text = "Return-path domain differs from From domain" -> 2
      [] entry.text = "From domain contains IDN or confusable characters" -> 3
      [] entry.text = "Free email provider with brand mention" -> 4
      [] entry.text = "Anomalous Received headers" -> 5
      [] entry.text = "Message-ID domain mismatch" -> 6
      [] entry.text = "Matched phishing language" -> 7
      [] entry.text = "Keyword in" -> 8
      [] entry.text = "Suspicious URL" -> 9
      [] entry.text = "Dangerous attachment extension in" -> 10
      [] entry.text = "Suspicious archive attachment" -> 10
      [] entry.text = "in whitelist" -> 11
      [] OTHER -> 0

\* the kinds that a call enters at most once
EnteredOnce(rank) == rank \notin {8, 9, 10}

C27_WitnessWhitelist ==
    /\ Returned
    /\ Len(outcome.explanations) >= 3
    /\ OrderRank(outcome.explanations[Len(outcome.explanations)]) = 11
    /\ \E i, j \in 1..Len(outcome.explanations) :
          OrderRank(outcome.explanations[i]) = 9 /\ OrderRank(outcome.explanations[j]) = 10
(***************************************************************************)
(* banded_levenshtein applied to the strings over a small alphabet         *)
(***************************************************************************)
MaxLen == 3

MaxK == 3

LevAlphabet == {"a", "b"}

LevStrings == SeqsUpTo(LevAlphabet, MaxLen)

InitLev ==
    /\ lev \in [a : LevStrings, b : LevStrings, k : 0..MaxK, status : {"pending"}, result : {{}}]
    /\ ScoreIdle
    /\ IndexIdle
    /\ PayloadIdle
    /\ ResponseIdle
    /\ RiskIdle
    /\ ConfIdle
    /\ BatchIdle
    /\ ThreadsIdle
    /\ PosIdle
    /\ ExplIdle

\* a call banded_levenshtein(a, b, k)
BandedLevenshtein ==
    /\ lev.status = "pending"
    /\ lev' = [lev EXCEPT !.status = "done",
                          !.result = banded_levenshtein(lev.a, lev.b, {lev.k})]
    /\ UNCHANGED <<risk_call, conf_call, batch>>
    /\ UNCHANGED <<response, threads, kwpos, expl>>
    /\ UNCHANGED <<headers, body_text, urls, attachments, outcome, now, llm_cache, llm_calls,
                   history, heap, ttl_cache, held, probe>>

NextLev == BandedLevenshtein

SpecLev == InitLev /\ [][NextLev]_vars

RECURSIVE Levenshtein(_, _)
\* the Levenshtein distance, by its defining recurrence
Levenshtein(a, b) ==
    IF a = <<>> THEN Len(b)
    ELSE IF b = <<>> THEN Len(a)
    ELSE Min3(Levenshtein(Tail(a), b) + 1,
              Levenshtein(a, Tail(b)) + 1,
              Levenshtein(Tail(a), Tail(b)) + (IF Head(a) = Head(b) THEN 0 ELSE 1))

\* C6: banded_levenshtein(a, b, k), k >= 0, returns None whenever
\* |len(a) - len(b)| > k; otherwise it returns the Levenshtein distance of a and
\* b when that distance is <= k, and None when it is > k.
C6_BandedLevenshtein ==
    lev.status = "done" =>
        IF Abs(Len(lev.a) - Len(lev.b)) > lev.k THEN lev.result = {}
        ELSE IF Levenshtein(lev.a, lev.b) <= lev.k THEN lev.result = {Levenshtein(lev.a, lev.b)}
        ELSE lev.result = {}

\* lengths within k of each other, a distance above k: None past the length test
C6_Witness ==
    /\ lev.status = "done"
    /\ lev.a # <<>> /\ lev.b # <<>>
    /\ Abs(Len(lev.a) - Len(lev.b)) <= lev.k
    /\ Levenshtein(lev.a, lev.b) > lev.k
    /\ lev.result = {}

\* a distance of at least 2 found within the band
C6_WitnessDistance ==
    /\ lev.status = "done"
    /\ Len(lev.a) > Len(lev.b)
    /\ lev.result = {Levenshtein(lev.a, lev.b)}
    /\ Levenshtein(lev.a, lev.b) >= 2

(***************************************************************************)
(* backend/api/index.py: the classifier result cache.  The handlers are    *)
(* async functions that never await, so a call of                          *)
(* _get_or_create_llm_result runs to its end before another starts.        *)
(* A dict is a function; a result dict | None is a set, {} for None.       *)
(***************************************************************************)
SUPPORTED_LLM_MODELS == <<"gpt-5-nano", "gpt-4.1-nano", "gpt-4o-mini">>

LLM_CACHE_TTL_SECONDS == 300

\* json.loads(json.dumps(payload)): a new dict with new lists, whose strings and
\* numbers are those of payload
_clone_payload(payload) ==
    [k \in DOMAIN payload |->
        IF k = "explanations"
        THEN [i \in 1..Len(payload[k]) |-> payload[k][i]]
        ELSE payload[k]]

\* the compact JSON text with sorted keys: it is determined by the dict's items
_normalize_parsed_email(parsed) == <<"json", parsed>>

\* the SHA-256 digest of that text (taken to be free of collisions)
_hash_parsed_email(parsed) == <<"sha256", _normalize_parsed_email(parsed)>>

_cache_key(model, digest) == <<model, digest>>

\* dict.pop(key, None)
DictPop(d, key) ==
    IF DOMAIN d \ {key} = {} THEN <<>> ELSE [k \in DOMAIN d \ {key} |-> d[k]]

\* d[key] = value
DictSet(d, key, value) == [k \in DOMAIN d \cup {key} |-> IF k = key THEN value ELSE d[k]]

\* a variant that never finds an entry: return None
_get_cached_llm_payload_miss(cache, model, digest, t) == [cached |-> {}, cache |-> cache]

\* a variant whose test of the age is strict: time.monotonic() - timestamp < TTL
_get_cached_llm_payload_strict(cache, model, digest, t) ==
    LET key == _cache_key(model, digest)
    IN  IF key \notin DOMAIN cache THEN [cached |-> {}, cache |-> cache]
        ELSE IF t - cache[key].timestamp < LLM_CACHE_TTL_SECONDS
             THEN [cached |-> {_clone_payload(cache[key].payload)}, cache |-> cache]
        ELSE [cached |-> {}, cache |-> DictPop(cache, key)]

\* with t the value of time.monotonic(); returns the result and the cache it leaves
_get_cached_llm_payload(cache, model, digest, t) ==
    LET key == _cache_key(model, digest)
    IN  IF key \notin DOMAIN cache THEN [cached |-> {}, cache |-> cache]
        ELSE IF t - cache[key].timestamp <= LLM_CACHE_TTL_SECONDS
             THEN [cached |-> {_clone_payload(cache[key].payload)}, cache |-> cache]
        ELSE [cached |-> {}, cache |-> DictPop(cache, key)]

_set_cached_llm_payload(cache, model, digest, payload, t) ==
    DictSet(cache, _cache_key(model, digest), [timestamp |-> t, payload |-> _clone_payload(payload)])

\* dict.get(key, default)
DictGet(d, key, default) == IF key \in DOMAIN d THEN d[key] ELSE default

\* the score probability / 100.0 is kept as the pair (probability, 100)
_create_llm_payload(model, llm_analysis) ==
    LET probability == DictGet(llm_analysis, "probability", 0)
        indicators == DictGet(llm_analysis, "indicators", <<>>)
        reasoning == DictGet(llm_analysis, "reasoning", "")
    IN  [label |-> IF probability > 50 THEN "phishing" ELSE "safe",
         score |-> <<probability, 100>>,
         explanations |->
            [i \in 1..Len(indicators) |-> <<"Suspicious indicator: ", indicators[i]>>]
            \o (IF reasoning # "" THEN <<<<"LLM reasoning: ", reasoning>>>> ELSE <<>>),
         detection_method |-> "LLM",
         llm_model |-> model]

\* if cached: of a dict | None
DictTruthy(cached) == cached # {} /\ \A p \in cached : DOMAIN p # {}

(***************************************************************************)
(* The requests and the clock                                              *)
(***************************************************************************)
MaxRequests == 3

MaxNow == 604

\* seconds an invocation of the classifier takes: the clock is read before it
\* (the expiry test) and after it (the timestamp)
CallSeconds == 1

\* the clock advances between calls by a TTL, or by a second more
TickSteps == {LLM_CACHE_TTL_SECONDS, LLM_CACHE_TTL_SECONDS + 1}

ParsedEmails ==
    <<[from |-> "alerts@example.com", subject |-> "Urgent billing update"],
      [from |-> "alerts@example.com", subject |-> "Meeting follow-up"]>>

\* the (model, parsed) pairs requested: two models for one email, two emails for
\* one model
Requests ==
    {<<SUPPORTED_LLM_MODELS[1], ParsedEmails[1]>>,
     <<SUPPORTED_LLM_MODELS[3], ParsedEmails[1]>>,
     <<SUPPORTED_LLM_MODELS[1], ParsedEmails[2]>>}

\* what _parse_llm_json makes of the classifier's reply: a dict ({} for an empty
\* reply)
LlmAnalyses ==
    {[probability |-> 90, indicators |-> <<"Urgent request">>, reasoning |-> "resembles phishing"],
     [k \in {} |-> 0]}

\* how _run_llm_analysis ends when it raises: before the classifier is invoked
\* (no OPENAI_API_KEY), or after (the API fails, the reply is no JSON)
LlmFailures == {"no_api_key", "reply_error"}

\* the ways _run_llm_analysis can go
LlmRuns ==
    {[kind |-> "reply", analysis |-> a] : a \in LlmAnalyses}
    \cup {[kind |-> f] : f \in LlmFailures}

InitIndex ==
    /\ IndexIdle
    /\ ScoreIdle
    /\ LevIdle
    /\ PayloadIdle
    /\ ResponseIdle
    /\ RiskIdle
    /\ ConfIdle
    /\ BatchIdle
    /\ ThreadsIdle
    /\ PosIdle
    /\ ExplIdle

Tick ==
    /\ \E d \in TickSteps : now + d <= MaxNow /\ now' = now + d
    /\ UNCHANGED <<risk_call, conf_call, batch>>
    /\ UNCHANGED <<response, threads, kwpos, expl>>
    /\ UNCHANGED <<headers, body_text, urls, attachments, outcome, lev, llm_cache, llm_calls,
                   history, heap, ttl_cache, held, probe>>

\* the record history keeps of a call
Served(model, parsed, at, served, calls, status, result, stamp) ==
    [model |-> model, parsed |-> parsed, at |-> at, served |-> served, calls |-> calls,
     status |-> status, result |-> result, stamp |-> stamp]

\* a call _get_or_create_llm_result(parsed, model); run is how _run_llm_analysis
\* goes if it is entered
GetOrCreateLlmResult ==
    \E request \in Requests, run \in LlmRuns :
        LET model == request[1]
            parsed == request[2]
            digest == _hash_parsed_email(parsed)
            key == _cache_key(model, digest)
            got == _get_cached_llm_payload(llm_cache, model, digest, now)
            payload == _create_llm_payload(model, run.analysis)
        IN  /\ Len(history) < MaxRequests
            /\ now + CallSeconds <= MaxNow
            /\ IF DictTruthy(got.cached)
               THEN /\ llm_cache' = got.cache
                    /\ UNCHANGED <<now, llm_calls>>
                    /\ history' = Append(history,
                          Served(model, parsed, now, "cache", 0, "returned", got.cached,
                                 got.cache[key].timestamp))
               ELSE IF run.kind = "no_api_key"
               THEN /\ llm_cache' = got.cache
                    /\ UNCHANGED <<now, llm_calls>>
                    /\ history' = Append(history,
                          Served(model, parsed, now, "none", 0, "raised", {}, -1))
               ELSE IF run.kind = "reply_error"
               THEN /\ llm_cache' = got.cache
                    /\ now' = now + CallSeconds
                    /\ llm_calls' = llm_calls + 1
                    /\ history' = Append(history,
                          Served(model, parsed, now, "none", 1, "raised", {}, -1))
               ELSE /\ now' = now + CallSeconds
                    /\ llm_calls' = llm_calls + 1
                    /\ llm_cache' = _set_cached_llm_payload(got.cache, model, digest, payload,
                                                            now + CallSeconds)
                    /\ history' = Append(history,
                          Served(model, parsed, now, "classifier", 1, "returned", {payload},
                                 now + CallSeconds))
            /\ UNCHANGED <<risk_call, conf_call, batch>>
            /\ UNCHANGED <<response, threads, kwpos, expl>>
            /\ UNCHANGED <<headers, body_text, urls, attachments, outcome, lev, heap, ttl_cache,
                           held, probe>>

NextIndex == Tick \/ GetOrCreateLlmResult

SpecIndex == InitIndex /\ [][NextIndex]_vars

(***************************************************************************)
(* Properties of the classifier result cache of index.py                   *)
(***************************************************************************)
SameRequest(i, j) ==
    history[i].model = history[j].model /\ history[i].parsed = history[j].parsed

\* the calls before call j with its model and payload
EarlierSame(j) == {i \in 1..(j - 1) : SameRequest(i, j)}

Latest(S) == CHOOSE i \in S : \A k \in S : k <= i

\* C4: of two successive calls of _get_or_create_llm_result with the same model
\* and payload, the second, made while the entry's age is within the TTL,
\* invokes no classifier and returns a result equal to the first's (the first,
\* finding no entry, invoked it once); made once the entry's age exceeds the
\* TTL, it is not served from the cache and invokes the classifier exactly once.
C4_OneCallPerTtl ==
    /\ llm_calls = SumSeq([j \in 1..Len(history) |-> history[j].calls])
    /\ \A j \in 1..Len(history) :
          IF EarlierSame(j) = {}
          THEN history[j].status = "returned" =>
                  history[j].served = "classifier" /\ history[j].calls = 1
          ELSE LET i == Latest(EarlierSame(j))
               IN  history[i].status = "returned" =>
                      IF history[j].at - history[i].stamp <= LLM_CACHE_TTL_SECONDS
                      THEN /\ history[j].status = "returned"
                           /\ history[j].served = "cache"
                           /\ history[j].calls = 0
                           /\ history[j].result = history[i].result
                      ELSE /\ history[j].served # "cache"
                           /\ history[j].status = "returned" => history[j].calls = 1

\* three calls with one model and payload: the second when the entry's age is
\* the TTL exactly, the third past it, which obtains another answer
C4_Witness ==
    /\ Len(history) = 3
    /\ SameRequest(1, 2) /\ SameRequest(2, 3)
    /\ \A j \in 1..3 : history[j].status = "returned"
    /\ history[1].calls = 1
    /\ history[2].at - history[1].stamp = LLM_CACHE_TTL_SECONDS
    /\ history[2].calls = 0
    /\ history[2].result = history[1].result
    /\ history[3].at - history[2].stamp > LLM_CACHE_TTL_SECONDS
    /\ history[3].calls = 1
    /\ history[3].result # history[1].result
    /\ llm_calls = 2

(***************************************************************************)
(* backend/core/llm_utils.py: analyze_payloads and its TTLCache.  A dict   *)
(* is a record of its items; a list is an object of the heap, named by its *)
(* index there, so that two dicts can hold one list.  The strings and      *)
(* numbers of a dict are immutable and are held by value.                  *)
(***************************************************************************)
\* int(os.getenv("LLM_CACHE_MAXSIZE", "256")): the configured maximum entry
\* count, here with LLM_CACHE_MAXSIZE set to 2
_CACHE_MAXSIZE == 2

_CACHE_TTL_SECONDS == 900

_MAX_BATCH_SIZE == 4

\* the signature _cache_key hashes: the model and the payload's from, subject,
\* body_hash, attachments and urls, not its id (the digest is taken to be free
\* of collisions)
llm_utils_cache_key(model, payload) == <<"sha256", model, payload.content>>

\* str(item).strip() of the strings used
StripText(text) == IF text = " " THEN "" ELSE text

\* the items of the new indicators list _normalise_analysis builds from a list
NormalisedIndicators(indicators_raw) ==
    LET stripped == [i \in 1..Len(indicators_raw) |-> StripText(indicators_raw[i])]
    IN  SelectSeq(stripped, LAMBDA item : item # "")

\* _normalise_analysis(raw), the new list it builds being the object ref
_normalise_analysis(raw, ref) ==
    [probability |-> Max2(0, Min2(100, DictGet(raw, "probability", 0))),
     indicators |-> ref,
     reasoning |-> StripText(DictGet(raw, "reasoning", ""))]

\* a variant that cuts slices of size + 1
_chunk_oversized(items, size) ==
    [c \in 1..((Len(items) + size) \div (size + 1)) |->
        SubSeq(items, (c - 1) * (size + 1) + 1, Min2(c * (size + 1), Len(items)))]

\* _chunk(items, size)
_chunk(items, size) ==
    [c \in 1..((Len(items) + size - 1) \div size) |->
        SubSeq(items, (c - 1) * size + 1, Min2(c * size, Len(items)))]

\* TTLCache: an item set at time t expires at t + ttl.  At the instant
\* t + ttl itself the releases of cachetools differ: at_expiry_gone says whether
\* the one in use has dropped the item by then.
TtlLive(entry, t, at_expiry_gone) ==
    t < entry.expires \/ (t = entry.expires /\ ~at_expiry_gone)

\* _CACHE.get(cache_key): {} for None
TtlCacheGet(cache, key, t, at_expiry_gone) ==
    IF key \in DOMAIN cache /\ TtlLive(cache[key], t, at_expiry_gone)
    THEN {cache[key].value}
    ELSE {}

\* the cache without its expired items
TtlExpire(cache, t, at_expiry_gone) ==
    LET live == {k \in DOMAIN cache : TtlLive(cache[k], t, at_expiry_gone)}
    IN  IF live = {} THEN <<>> ELSE [k \in live |-> cache[k]]

\* _CACHE[cache_key] = value (no more items than _CACHE_MAXSIZE are ever held);
\* stored records the contents value had when it was set
TtlCacheSet(cache, key, value, stored, t, at_expiry_gone) ==
    DictSet(TtlExpire(cache, t, at_expiry_gone), key,
            [expires |-> t + _CACHE_TTL_SECONDS, value |-> value, stored |-> stored])

\* dict(d): a new dict with the same items, so with the same list object
ShallowCopyDict(d) == d

\* the contents of a result dict: its items, with the list's items for the list
Contents(d, h) ==
    [probability |-> d.probability, indicators |-> h[d.indicators], reasoning |-> d.reasoning]

(***************************************************************************)
(* The calls of analyze_payloads, the callers and the clock                *)
(***************************************************************************)
MaxBatch == 2

MaxHeld == 2

MaxListLen == 2

MaxClock == 1350

\* prepared payloads: e1 and e3 are one email under two ids
PayloadPool ==
    {[id |-> "e1", content |-> "invoice"],
     [id |-> "e2", content |-> "meeting"],
     [id |-> "e3", content |-> "invoice"]}

\* the lists of 1..MaxBatch payloads with distinct ids
PayloadLists ==
    {ps \in SeqsUpTo(PayloadPool, MaxBatch) :
        ps # <<>> /\ \A i, j \in 1..Len(ps) : i # j => ps[i].id # ps[j].id}

\* the analyses the classifier may send for an email
RawAnalyses ==
    {[probability |-> 150, indicators |-> <<"Urgent request", " ">>, reasoning |-> "resembles phishing"],
     [probability |-> 10, indicators |-> <<>>, reasoning |-> " "]}

\* per payload id: the analysis of the reply, or none for it
ReplyItems == {[kind |-> "analysis", raw |-> r] : r \in RawAnalyses} \cup {[kind |-> "missing"]}

RECURSIVE StoreChunk(_, _, _, _, _, _, _)
\* for payload, cache_key in chunk: normalise, store a copy, return the analysis
StoreChunk(chunk, payloads, model, reply, t, at_expiry_gone, st) ==
    IF chunk = <<>> THEN st
    ELSE LET payload == payloads[Head(chunk)]
             cache_key == llm_utils_cache_key(model, payload)
             ref == Len(st.heap) + 1
             analysis == _normalise_analysis(reply[payload.id].raw, ref)
             heap1 == Append(st.heap, NormalisedIndicators(reply[payload.id].raw.indicators))
         IN  StoreChunk(Tail(chunk), payloads, model, reply, t, at_expiry_gone,
                 [st EXCEPT
                    !.heap = heap1,
                    !.cache = TtlCacheSet(st.cache, cache_key, ShallowCopyDict(analysis),
                                          Contents(analysis, heap1), t, at_expiry_gone),
                    !.results = Append(st.results,
                                       [id |-> payload.id, key |-> cache_key,
                                        served |-> "classifier", value |-> analysis])])

RECURSIVE ChunkLoop_clears_cache(_, _, _, _, _, _, _)
\* a variant that empties the cache when a chunk fails
ChunkLoop_clears_cache(chunks, payloads, model, reply, t, at_expiry_gone, st) ==
    IF chunks = <<>> THEN st
    ELSE LET chunk == Head(chunks)
             failing == SelectSeq(chunk, LAMBDA i : reply[payloads[i].id].kind # "analysis")
             called == [st EXCEPT !.sent = Append(@, chunk)]
         IN  IF failing # <<>> THEN [called EXCEPT !.raised = TRUE, !.cache = <<>>]
             ELSE ChunkLoop_clears_cache(Tail(chunks), payloads, model, reply, t, at_expiry_gone,
                      StoreChunk(chunk, payloads, model, reply, t, at_expiry_gone, called))

RECURSIVE ChunkLoop(_, _, _, _, _, _, _)
\* for chunk in _chunk(pending, _MAX_BATCH_SIZE): one classifier call each; sent
\* lists the chunks passed to _call_llm, each as the indices of its payloads.
\* The reply says of each id what the call for its chunk brings: its analysis;
\* "missing", a response without this id (line 129 raises); "api_error", a
\* call that raises (line 123); "not_json", a response that _parse_llm_json
\* rejects (line 124)
ChunkLoop(chunks, payloads, model, reply, t, at_expiry_gone, st) ==
    IF chunks = <<>> THEN st
    ELSE LET chunk == Head(chunks)
             failing == SelectSeq(chunk, LAMBDA i : reply[payloads[i].id].kind # "analysis")
             called == [st EXCEPT !.sent = Append(@, chunk)]
         IN  IF failing # <<>> THEN [called EXCEPT !.raised = TRUE]
             ELSE ChunkLoop(Tail(chunks), payloads, model, reply, t, at_expiry_gone,
                            StoreChunk(chunk, payloads, model, reply, t, at_expiry_gone, called))

\* analyze_payloads(api_key, model, payloads) at time t: the cache, the heap and
\* the results it leaves, the chunks it sent and whether it raised
analyze_payloads(cache, h, model, payloads, reply, t, at_expiry_gone) ==
    LET indices == [i \in 1..Len(payloads) |-> i]
        cached(i) == TtlCacheGet(cache, llm_utils_cache_key(model, payloads[i]), t, at_expiry_gone)
        hits == SelectSeq(indices, LAMBDA i : cached(i) # {})
        pending == SelectSeq(indices, LAMBDA i : cached(i) = {})
        from_cache ==
            [n \in 1..Len(hits) |->
                [id |-> payloads[hits[n]].id,
                 key |-> llm_utils_cache_key(model, payloads[hits[n]]),
                 served |-> "cache",
                 value |-> ShallowCopyDict(CHOOSE d \in cached(hits[n]) : TRUE)]]
    IN  ChunkLoop(_chunk(pending, _MAX_BATCH_SIZE), payloads, model, reply, t, at_expiry_gone,
                  [cache |-> cache, heap |-> h, results |-> from_cache, raised |-> FALSE,
                   sent |-> <<>>])

InitPayload ==
    /\ PayloadIdle
    /\ IndexIdle
    /\ ScoreIdle
    /\ LevIdle
    /\ ResponseIdle
    /\ RiskIdle
    /\ ConfIdle
    /\ BatchIdle
    /\ ThreadsIdle
    /\ PosIdle
    /\ ExplIdle

\* a call of analyze_payloads whose results the caller keeps
AnalyzePayloads ==
    \E payloads \in PayloadLists, at_expiry_gone \in BOOLEAN :
    \E reply \in [{payloads[i].id : i \in 1..Len(payloads)} -> ReplyItems] :
        LET done == analyze_payloads(ttl_cache, heap, SUPPORTED_LLM_MODELS[1], payloads, reply,
                                     now, at_expiry_gone)
        IN  /\ Len(held) + Len(payloads) <= MaxHeld
            /\ ttl_cache' = done.cache
            /\ heap' = done.heap
            /\ IF done.raised
               THEN UNCHANGED <<held, probe>>
               ELSE /\ held' = held \o done.results
                    /\ probe' =
                          [n \in 1..Len(done.results) |->
                              [id |-> done.results[n].id,
                               served |-> done.results[n].served,
                               value |-> Contents(done.results[n].value, done.heap),
                               stored |-> IF done.results[n].served = "cache"
                                          THEN ttl_cache[done.results[n].key].stored
                                          ELSE done.cache[done.results[n].key].stored]]
            /\ UNCHANGED <<risk_call, conf_call, batch>>
            /\ UNCHANGED <<response, threads, kwpos, expl>>
            /\ UNCHANGED <<headers, body_text, urls, attachments, outcome, lev, now, llm_cache,
                           llm_calls, history>>

\* a caller appends to the indicators list of a result it holds
CallerAppendsIndicator ==
    /\ \E i \in 1..Len(held) :
          /\ Len(heap[held[i].value.indicators]) < MaxListLen
          /\ heap' = [heap EXCEPT ![held[i].value.indicators] = Append(@, "added by caller")]
    /\ UNCHANGED <<risk_call, conf_call, batch>>
    /\ UNCHANGED <<response, threads, kwpos, expl>>
    /\ UNCHANGED <<headers, body_text, urls, attachments, outcome, lev, now, llm_cache,
                   llm_calls, history, ttl_cache, held, probe>>

\* a caller assigns a top-level field of a result it holds
CallerSetsField ==
    /\ \E i \in 1..Len(held) :
          /\ held[i].value.probability # 0
          /\ held' = [held EXCEPT ![i].value.probability = 0]
    /\ UNCHANGED <<risk_call, conf_call, batch>>
    /\ UNCHANGED <<response, threads, kwpos, expl>>
    /\ UNCHANGED <<headers, body_text, urls, attachments, outcome, lev, now, llm_cache,
                   llm_calls, history, heap, ttl_cache, probe>>

TickPayload ==
    /\ now + _CACHE_TTL_SECONDS \div 2 <= MaxClock
    /\ now' = now + _CACHE_TTL_SECONDS \div 2
    /\ UNCHANGED <<risk_call, conf_call, batch>>
    /\ UNCHANGED <<response, threads, kwpos, expl>>
    /\ UNCHANGED <<headers, body_text, urls, attachments, outcome, lev, llm_cache, llm_calls,
                   history, heap, ttl_cache, held, probe>>

NextPayload == AnalyzePayloads \/ CallerAppendsIndicator \/ CallerSetsField \/ TickPayload

SpecPayload == InitPayload /\ [][NextPayload]_vars

(***************************************************************************)
(* Properties of analyze_payloads                                          *)
(***************************************************************************)
\* C5: a result analyze_payloads returns, on a hit or on a miss, shares no
\* mutable state with the stored entry: whatever callers have done to the
\* results they hold (their top-level fields, their indicators lists), a call
\* served from the cache returns the values that were stored.
C5_CacheUnaffectedByCallers ==
    \A n \in 1..Len(probe) :
        probe[n].served = "cache" => probe[n].value = probe[n].stored

\* the part of C5 that holds: the top-level fields served are those stored
C5_TopLevelIsolated ==
    \A n \in 1..Len(probe) :
        probe[n].served = "cache" =>
            /\ probe[n].value.probability = probe[n].stored.probability
            /\ probe[n].value.reasoning = probe[n].stored.reasoning

\* a call served from the cache returned an indicators list that holds what a
\* caller appended to an earlier result
C5_Witness ==
    \E n \in 1..Len(probe) :
        /\ probe[n].served = "cache"
        /\ InSeq("added by caller", probe[n].value.indicators)
        /\ ~InSeq("added by caller", probe[n].stored.indicators)

\* the list object of a held result is the list object of a cache entry
C5_SharedList ==
    \E i \in 1..Len(held) : \E k \in DOMAIN ttl_cache :
        held[i].value.indicators = ttl_cache[k].value.indicators

(***************************************************************************)
(* The size of the classifier result cache of index.py                     *)
(***************************************************************************)
\* the entries of _LLM_CACHE that a lookup at the present time would still serve
LiveLlmEntries ==
    {k \in DOMAIN llm_cache : now - llm_cache[k].timestamp <= LLM_CACHE_TTL_SECONDS}

\* C12: after any sequence of get-or-compute calls, _LLM_CACHE never holds more
\* entries than the configured maximum entry count.
C12_CacheWithinMaxsize == Cardinality(DOMAIN llm_cache) <= _CACHE_MAXSIZE

\* three requests with distinct keys were computed and all three entries are
\* held, none of them expired
C12_Witness ==
    /\ Len(history) = 3
    /\ \A i \in 1..3 : history[i].served = "classifier"
    /\ Cardinality(LiveLlmEntries) = 3

(***************************************************************************)
(* backend/api/index.py: the handlers analyze_llm and analyze_llm_batch.   *)
(* The classifier's raw response is the record of what _parse_llm_json     *)
(* sees in it: nothing but whitespace, text that is no JSON, or a JSON     *)
(* object.  An exception is the record of its status and detail.           *)
(***************************************************************************)
DEFAULT_LLM_MODEL == SUPPORTED_LLM_MODELS[1]

\* _validate_llm_model(model) returns (TRUE) or raises HTTPException 400 (FALSE)
_validate_llm_model(model) == \E i \in 1..Len(SUPPORTED_LLM_MODELS) : SUPPORTED_LLM_MODELS[i] = model

HttpError(status, detail) == [status |-> status, detail |-> detail]

NoError == HttpError(200, "")

\* json.loads(raw_response.strip()) if raw_response.strip() else {}
_parse_llm_json(raw_response) ==
    IF raw_response.kind = "empty" THEN [error |-> NoError, value |-> [k \in {} |-> 0]]
    ELSE IF raw_response.kind = "not_json"
         THEN [error |-> HttpError(422, "Failed to parse LLM response"), value |-> [k \in {} |-> 0]]
    ELSE [error |-> NoError, value |-> raw_response.value]

\* _run_llm_analysis(parsed, model) at time t; run is what the environment does:
\* no OPENAI_API_KEY, the API call raises, or the classifier replies with raw.
\* error.status 0 is an exception that is no HTTPException.
_run_llm_analysis(model, run, t) ==
    IF run.kind = "no_api_key"
    THEN [error |-> HttpError(500, "OPENAI_API_KEY environment variable not set"),
          calls |-> 0, t |-> t, payload |-> {}]
    ELSE IF run.kind = "api_error"
    THEN [error |-> HttpError(0, "API error"), calls |-> 1, t |-> t + CallSeconds, payload |-> {}]
    ELSE IF _parse_llm_json(run.raw).error # NoError
    THEN [error |-> _parse_llm_json(run.raw).error, calls |-> 1, t |-> t + CallSeconds,
          payload |-> {}]
    ELSE [error |-> NoError, calls |-> 1, t |-> t + CallSeconds,
          payload |-> {_create_llm_payload(model, _parse_llm_json(run.raw).value)}]

\* the rest of _get_or_create_llm_result once the lookup is done (got); ran is
\* how _run_llm_analysis goes if there was no hit
GetOrCreateFrom(model, digest, t, got, ran) ==
    IF DictTruthy(got.cached)
    THEN [error |-> NoError, cache |-> got.cache, t |-> t, calls |-> 0, stored |-> 0,
          payload |-> got.cached, hit |-> TRUE]
    ELSE IF ran.error # NoError
    THEN [error |-> ran.error, cache |-> got.cache, t |-> ran.t, calls |-> ran.calls,
          stored |-> 0, payload |-> {}, hit |-> FALSE]
    ELSE [error |-> NoError,
          cache |-> _set_cached_llm_payload(got.cache, model, digest,
                                            CHOOSE p \in ran.payload : TRUE, ran.t),
          t |-> ran.t, calls |-> ran.calls, stored |-> 1, payload |-> ran.payload,
          hit |-> FALSE]

\* _get_or_create_llm_result(parsed, model) with the cache as it is at time t
_get_or_create_llm_result(cache, t, parsed, model, run) ==
    GetOrCreateFrom(model, _hash_parsed_email(parsed), t,
                    _get_cached_llm_payload(cache, model, _hash_parsed_email(parsed), t),
                    _run_llm_analysis(model, run, t))

\* except HTTPException: raise / except Exception as e: raise HTTPException(422)
HandlerError(error, detail) == IF error.status = 0 THEN HttpError(422, detail) ELSE error

\* what a handler has done so far: the cache and the clock it leaves, the
\* classifier invocations and the cache insertions it made, its results, and
\* per call of _get_or_create_llm_result what it was asked and what happened
HandlerState(cache, t) ==
    [error |-> NoError, cache |-> cache, t |-> t, calls |-> 0, stored |-> 0,
     results |-> <<>>, trace |-> <<>>]

Raise(st, error) == [st EXCEPT !.error = error]

\* the handler's state after _get_or_create_llm_result ended as done
AfterCall(st, parsed, model, run, detail, done) ==
    [error |-> HandlerError(done.error, detail),
     cache |-> done.cache,
     t |-> done.t,
     calls |-> st.calls + done.calls,
     stored |-> st.stored + done.stored,
     results |-> IF done.error = NoError
                 THEN Append(st.results, CHOOSE p \in done.payload : TRUE)
                 ELSE st.results,
     trace |-> Append(st.trace,
                      [model |-> model, parsed |-> parsed, at |-> st.t, hit |-> done.hit,
                       calls |-> done.calls, stored |-> done.stored, run |-> run,
                       error |-> done.error])]

\* item.get("model", default_model)
ItemModel(item, default_model) ==
    IF item.model = {} THEN default_model ELSE CHOOSE m \in item.model : TRUE

\* the body of the loop of analyze_llm_batch (lines 401-408) for one item
BatchItem(st, item, default_model, run) ==
    IF ~_validate_llm_model(ItemModel(item, default_model))
    THEN Raise(st, HttpError(400, "Unsupported model"))
    ELSE AfterCall(st, item.parsed, ItemModel(item, default_model), run,
                   "LLM batch analysis error",
                   _get_or_create_llm_result(st.cache, st.t, item.parsed,
                                             ItemModel(item, default_model), run))

RECURSIVE BatchLoop(_, _, _, _)
\* for item in items, until an exception ends it
BatchLoop(items, runs, default_model, st) ==
    IF items = <<>> \/ st.error # NoError THEN st
    ELSE BatchLoop(Tail(items), Tail(runs), default_model,
                   BatchItem(st, Head(items), default_model, Head(runs)))

\* data.get("model", DEFAULT_LLM_MODEL)
DataModel(data) == IF data.model = {} THEN DEFAULT_LLM_MODEL ELSE CHOOSE m \in data.model : TRUE

\* analyze_llm_batch(data)
analyze_llm_batch(cache, t, data, runs) ==
    IF data.items = <<>>
    THEN Raise(HandlerState(cache, t), HttpError(400, "items must be a non-empty list"))
    ELSE IF ~_validate_llm_model(DataModel(data))
    THEN Raise(HandlerState(cache, t), HttpError(400, "Unsupported model"))
    ELSE BatchLoop(data.items, runs, DataModel(data), HandlerState(cache, t))

\* analyze_llm(data)
analyze_llm(cache, t, data, run) ==
    IF ~_validate_llm_model(DataModel(data))
    THEN Raise(HandlerState(cache, t), HttpError(400, "Unsupported model"))
    ELSE AfterCall(HandlerState(cache, t), data.parsed, DataModel(data), run,
                   "LLM analysis error",
                   _get_or_create_llm_result(cache, t, data.parsed, DataModel(data), run))

(***************************************************************************)
(* The requests the handlers serve                                         *)
(***************************************************************************)
MaxHandlerRequests == 2

MaxItems == 2

UnsupportedModel == "gpt-3.5-turbo"

HandlerEmails == {ParsedEmails[i] : i \in 1..Len(ParsedEmails)}

\* the "model" key of a request or of an item: absent, supported, unsupported
ModelFields == {{}, {SUPPORTED_LLM_MODELS[3]}, {UnsupportedModel}}

BatchItems == [parsed : HandlerEmails, model : ModelFields]

FullObject ==
    [probability |-> 90, indicators |-> <<"Urgent request">>, reasoning |-> "resembles phishing"]

SafeObject == [probability |-> 10, indicators |-> <<>>, reasoning |-> "routine"]

\* the classifier's responses: whitespace only, no JSON, a JSON object with the
\* three fields, a JSON object without probability and indicators
RawResponses ==
    {[kind |-> "empty"], [kind |-> "not_json"],
     [kind |-> "json", value |-> FullObject],
     [kind |-> "json", value |-> [reasoning |-> "resembles phishing"]]}

HandlerRuns ==
    {[kind |-> "no_api_key"], [kind |-> "api_error"]}
    \cup {[kind |-> "reply", raw |-> r] : r \in RawResponses}

\* how an item of a batch goes: answered in full (one of two answers), the API
\* call raises, no key
BatchRuns ==
    {[kind |-> "reply", raw |-> [kind |-> "json", value |-> FullObject]],
     [kind |-> "reply", raw |-> [kind |-> "json", value |-> SafeObject]],
     [kind |-> "api_error"], [kind |-> "no_api_key"]}

\* batches of at most MaxItems items, with any model fields
ShortBatches ==
    {[data |-> [items |-> items, model |-> m], runs |-> runs] :
        items \in SeqsUpTo(BatchItems, MaxItems), m \in {{}, {UnsupportedModel}},
        runs \in SeqsUpTo(BatchRuns, MaxItems)}

\* batches of one item more than _MAX_BATCH_SIZE, every item answered in full
LongBatches ==
    {[data |-> [items |-> items, model |-> {}],
      runs |-> [i \in 1..(_MAX_BATCH_SIZE + 1) |-> [kind |-> "reply", raw |-> [kind |-> "json", value |-> FullObject]]]] :
        items \in [1..(_MAX_BATCH_SIZE + 1) -> [parsed : HandlerEmails, model : {{}}]]}

BatchRequests == {b \in ShortBatches : Len(b.runs) = Len(b.data.items)} \cup LongBatches

Response(handler, size, st) ==
    [seq |-> response.seq + 1, handler |-> handler, size |-> size,
     status |-> st.error.status, detail |-> st.error.detail,
     results |-> st.results, calls |-> st.calls, stored |-> st.stored, trace |-> st.trace]

Respond(handler, size, st) ==
    /\ st.t <= MaxNow
    /\ response' = Response(handler, size, st)
    /\ llm_cache' = st.cache
    /\ now' = st.t
    /\ llm_calls' = llm_calls + st.calls

\* a request POST /analyze/llm
AnalyzeLlm ==
    /\ response.seq < MaxHandlerRequests
    /\ \E parsed \in HandlerEmails, m \in ModelFields, run \in HandlerRuns :
          Respond("analyze_llm", 1,
                  analyze_llm(llm_cache, now, [parsed |-> parsed, model |-> m], run))
    /\ UNCHANGED <<headers, body_text, urls, attachments, outcome, lev, history, heap,
                   ttl_cache, held, probe, threads, kwpos, expl, risk_call, conf_call, batch>>

\* a request POST /analyze/llm/batch
AnalyzeLlmBatch ==
    /\ response.seq < MaxHandlerRequests
    /\ \E b \in BatchRequests :
          Respond("analyze_llm_batch", Len(b.data.items),
                  analyze_llm_batch(llm_cache, now, b.data, b.runs))
    /\ UNCHANGED <<headers, body_text, urls, attachments, outcome, lev, history, heap,
                   ttl_cache, held, probe, threads, kwpos, expl, risk_call, conf_call, batch>>

InitHandlers == InitIndex

NextHandlers == Tick \/ AnalyzeLlm \/ AnalyzeLlmBatch

SpecHandlers == InitHandlers /\ [][NextHandlers]_vars
(***************************************************************************)
(* Properties of the handlers analyze_llm and analyze_llm_batch            *)
(***************************************************************************)
Responded == response.seq > 0

BatchResponded == Responded /\ response.handler = "analyze_llm_batch"

\* C13: a batch request with more items than the configured maximum batch size
\* is rejected with an error, before any classifier call and before the cache
\* is modified.
C13_OversizeBatchRejected ==
    (BatchResponded /\ response.size > _MAX_BATCH_SIZE) =>
        /\ response.status # 200
        /\ response.calls = 0
        /\ response.stored = 0

\* a batch of _MAX_BATCH_SIZE + 1 items was served in full
C13_Witness ==
    /\ BatchResponded
    /\ response.size = _MAX_BATCH_SIZE + 1
    /\ response.status = 200
    /\ Len(response.results) = _MAX_BATCH_SIZE + 1
    /\ response.calls >= 1

RequiredFields == {"probability", "indicators", "reasoning"}

\* the classifier's response is empty, is no JSON, or lacks a required field
Malformed(raw) ==
    \/ raw.kind \in {"empty", "not_json"}
    \/ raw.kind = "json" /\ ~(RequiredFields \subseteq DOMAIN raw.value)

\* the calls of the latest request in which the classifier answered
RepliedCalls == {i \in 1..Len(response.trace) : response.trace[i].run.kind = "reply"
                                                /\ response.trace[i].calls = 1}

\* C14: when the classifier's response is empty, is no JSON or lacks a required
\* field, the call fails with the explicit parse error, the request fails, and
\* nothing is stored in the cache for that response.
C14_MalformedReplyFails ==
    Responded =>
        \A i \in RepliedCalls :
            Malformed(response.trace[i].run.raw) =>
                /\ response.trace[i].error.detail = "Failed to parse LLM response"
                /\ response.trace[i].stored = 0
                /\ response.status # 200

\* an empty response of the classifier was turned into a result of score 0,
\* returned and stored
C14_Witness ==
    /\ Responded
    /\ response.status = 200
    /\ \E i \in RepliedCalls :
          /\ response.trace[i].run.raw.kind = "empty"
          /\ response.trace[i].stored = 1
          /\ response.results[i].score = <<0, 100>>
          /\ response.results[i].label = "safe"

UnsupportedModelResponse ==
    Responded /\ response.status = 400 /\ response.detail = "Unsupported model"

\* C15: a request that fails for an unsupported model has not invoked the
\* classifier and has not changed the cache.
C15_UnsupportedModelNoEffect ==
    UnsupportedModelResponse => response.calls = 0 /\ response.stored = 0

\* a batch rejected for the model of its second item, after its first item was
\* classified and cached
C15_Witness ==
    /\ UnsupportedModelResponse
    /\ response.handler = "analyze_llm_batch"
    /\ Len(response.trace) = 1
    /\ response.calls = 1
    /\ response.stored = 1

TraceKey(e) == _cache_key(e.model, _hash_parsed_email(e.parsed))

\* the items before the i-th for whose key the classifier's answer was stored
EarlierInserts(tr, i) ==
    {j \in 1..(i - 1) : /\ TraceKey(tr[j]) = TraceKey(tr[i])
                        /\ tr[j].run.kind = "reply"
                        /\ tr[j].calls = 1}

\* when the i-th item is looked up, its key has a live entry: one the cache held
\* before the request, or one an earlier item of the batch inserted
LiveAt(cache, tr, i) ==
    \/ /\ TraceKey(tr[i]) \in DOMAIN cache
       /\ tr[i].at - cache[TraceKey(tr[i])].timestamp <= LLM_CACHE_TTL_SECONDS
    \/ \E j \in EarlierInserts(tr, i) :
          tr[i].at - (tr[j].at + CallSeconds) <= LLM_CACHE_TTL_SECONDS

\* the result the i-th item is due: that of its own classification, or that of
\* the entry found
ResultDue(cache, tr, i) ==
    IF tr[i].calls = 1 THEN _create_llm_payload(tr[i].model, tr[i].run.raw.value)
    ELSE IF EarlierInserts(tr, i) # {}
    THEN LET j == CHOOSE j \in EarlierInserts(tr, i) : \A k \in EarlierInserts(tr, i) : k <= j
         IN  _create_llm_payload(tr[j].model, tr[j].run.raw.value)
    ELSE cache[TraceKey(tr[i])].payload

\* what C17 asks of a batch served from the cache `cache` with the trace tr
BatchInOrder(cache, resp) ==
    /\ \A i \in 1..Len(resp.trace) :
          resp.trace[i].calls =
              IF LiveAt(cache, resp.trace, i) \/ resp.trace[i].run.kind = "no_api_key"
              THEN 0 ELSE 1
    /\ resp.status = 200 =>
          /\ Len(resp.results) = resp.size
          /\ Len(resp.trace) = resp.size
          /\ \A i \in 1..resp.size : resp.results[i] = ResultDue(cache, resp.trace, i)

\* C17: in analyze_llm_batch each item is looked up in input order; an item
\* whose key has a live entry, one inserted by an earlier item of the batch
\* included, causes no classifier call, every other item causes exactly one
\* (none when no API key is configured, which ends the request), and a served
\* batch has one result per item in input order.
C17_BatchItemsInOrder ==
    [][(response'.seq # response.seq /\ response'.handler = "analyze_llm_batch")
          => BatchInOrder(llm_cache, response')]_vars

\* a batch of two items with one key: the first was classified, the second was
\* served from the entry the first inserted
C17_Witness ==
    /\ BatchResponded
    /\ response.status = 200
    /\ response.size = 2
    /\ TraceKey(response.trace[1]) = TraceKey(response.trace[2])
    /\ response.trace[1].calls = 1
    /\ response.trace[2].calls = 0
    /\ response.results[2] = response.results[1]
    /\ response.calls = 1

\* a batch whose first item was served from an entry of an earlier request
C17_WitnessEarlierRequest ==
    /\ BatchResponded
    /\ response.seq = 2
    /\ response.status = 200
    /\ response.size = 2
    /\ response.trace[1].calls = 0
    /\ response.trace[2].calls = 1


\* the same for _get_or_create_llm_result of index.py: a lookup that ended in
\* an error, of the call or of the parse, stored nothing
FailedLookupStoresNothing ==
    Responded =>
        \A i \in 1..Len(response.trace) :
            response.trace[i].error # NoError => response.trace[i].stored = 0

\* a lookup called the classifier, failed and stored nothing
FailedLookupReached ==
    /\ Responded
    /\ \E i \in 1..Len(response.trace) :
          /\ response.trace[i].error # NoError
          /\ response.trace[i].calls = 1

\* ---------------------------------------------------------------------------
\* core/llm_utils.py: several threads inside analyze_payloads at once.
\* threads holds _CLIENT_LOCK (0 = free, else its holder), the keys of
\* _CLIENTS, the keys of _CACHE and, for each thread, where it is in the call.
\* An access to a shared map is an interval: the thread enters it in one step
\* and leaves it, with its effect, in a later one.
\* ---------------------------------------------------------------------------

\* the number of threads
NumThreads == 2

\* the number of calls one thread makes
MaxThreadCalls == 2

\* the longest payload list of a call
MaxThreadPayloads == 2

ThreadIds == 1..NumThreads

ThreadApiKeys == {"", "key-a", "key-b"}

ThreadCacheKeys == {"digest-1", "digest-2"}

ThreadPayloads ==
    UNION {[1..n -> ThreadCacheKeys] : n \in 0..MaxThreadPayloads}

ThreadAtRest(calls) ==
    [pc |-> "idle", api_key |-> "", payloads |-> <<>>, i |-> 0, pending |-> <<>>,
     calls |-> calls]

\* the thread is inside an access to _CLIENTS (lines 39-43)
InClients(p) == threads.proc[p].pc = "clients"

\* the thread is inside an access to _CACHE (line 112 or line 133)
InCache(p) == threads.proc[p].pc \in {"in_get", "in_set"}

InitThreads ==
    /\ threads = [lock |-> 0, clients |-> {}, cache |-> {},
                  proc |-> [p \in ThreadIds |-> ThreadAtRest(0)]]
    /\ PayloadIdle
    /\ IndexIdle
    /\ ScoreIdle
    /\ LevIdle
    /\ ResponseIdle
    /\ RiskIdle
    /\ ConfIdle
    /\ BatchIdle
    /\ PosIdle
    /\ ExplIdle

ThreadStep(p, proc) ==
    /\ threads' = [threads EXCEPT !.proc[p] = proc]
    /\ UNCHANGED <<risk_call, conf_call, batch>>
    /\ UNCHANGED <<response, kwpos, expl>>
    /\ UNCHANGED <<headers, body_text, urls, attachments, outcome, lev, now, llm_cache,
                   llm_calls, history, heap, ttl_cache, held, probe>>

\* analyze_payloads is called: the checks of lines 100-103 and of line 36
ThreadCall(p) ==
    /\ threads.proc[p].pc = "idle"
    /\ threads.proc[p].calls < MaxThreadCalls
    /\ \E api_key \in ThreadApiKeys, payloads \in ThreadPayloads,
          model \in {SUPPORTED_LLM_MODELS[1], "gpt-3.5-turbo"} :
          ThreadStep(p,
              IF \/ payloads = <<>>
                 \/ model \notin {SUPPORTED_LLM_MODELS[n] : n \in 1..Len(SUPPORTED_LLM_MODELS)}
                 \/ api_key = ""
              THEN ThreadAtRest(threads.proc[p].calls + 1)
              ELSE [pc |-> "lock", api_key |-> api_key, payloads |-> payloads, i |-> 1,
                    pending |-> <<>>, calls |-> threads.proc[p].calls + 1])

\* with _CLIENT_LOCK: the lock is taken when it is free
ThreadAcquire(p) ==
    /\ threads.proc[p].pc = "lock"
    /\ threads.lock = 0
    /\ threads' = [threads EXCEPT !.lock = p, !.proc[p].pc = "clients"]
    /\ UNCHANGED <<risk_call, conf_call, batch>>
    /\ UNCHANGED <<response, kwpos, expl>>
    /\ UNCHANGED <<headers, body_text, urls, attachments, outcome, lev, now, llm_cache,
                   llm_calls, history, heap, ttl_cache, held, probe>>

\* the body of the with block: look the client up, create it when missing, and
\* leave the block, which releases the lock
ThreadRelease(p) ==
    /\ threads.proc[p].pc = "clients"
    /\ threads' = [threads EXCEPT !.lock = 0,
                                  !.clients = @ \cup {threads.proc[p].api_key},
                                  !.proc[p].pc = "get"]
    /\ UNCHANGED <<risk_call, conf_call, batch>>
    /\ UNCHANGED <<response, kwpos, expl>>
    /\ UNCHANGED <<headers, body_text, urls, attachments, outcome, lev, now, llm_cache,
                   llm_calls, history, heap, ttl_cache, held, probe>>

\* line 112: _CACHE.get(cache_key) begins; no lock is taken
ThreadGetBegins(p) ==
    /\ threads.proc[p].pc = "get"
    /\ ThreadStep(p, [threads.proc[p] EXCEPT !.pc = "in_get"])

\* where the first loop goes after payload i
AfterGet(proc, pending) ==
    IF proc.i < Len(proc.payloads)
    THEN [proc EXCEPT !.pc = "get", !.i = @ + 1, !.pending = pending]
    ELSE IF pending = <<>>
         THEN ThreadAtRest(proc.calls)
         ELSE [proc EXCEPT !.pc = "call", !.pending = pending]

\* lines 112-116: _CACHE.get returns; a miss makes the payload pending
ThreadGetEnds(p) ==
    /\ threads.proc[p].pc = "in_get"
    /\ ThreadStep(p,
          AfterGet(threads.proc[p],
                   IF threads.proc[p].payloads[threads.proc[p].i] \in threads.cache
                   THEN threads.proc[p].pending
                   ELSE Append(threads.proc[p].pending,
                               threads.proc[p].payloads[threads.proc[p].i])))

\* lines 118-129: the pending payloads fit one chunk; the model is called with
\* no lock held, and a reply that misses an analysis raises
ThreadCallsLlm(p) ==
    /\ threads.proc[p].pc = "call"
    /\ Len(threads.proc[p].pending) <= _MAX_BATCH_SIZE
    /\ \E complete \in BOOLEAN :
          ThreadStep(p,
              IF complete
              THEN [threads.proc[p] EXCEPT !.pc = "set", !.i = 1]
              ELSE ThreadAtRest(threads.proc[p].calls))

\* line 133: _CACHE[cache_key] = dict(analysis) begins; no lock is taken
ThreadSetBegins(p) ==
    /\ threads.proc[p].pc = "set"
    /\ ThreadStep(p, [threads.proc[p] EXCEPT !.pc = "in_set"])

\* line 133 ends, and the loop of lines 131-134 goes on
ThreadSetEnds(p) ==
    /\ threads.proc[p].pc = "in_set"
    /\ threads' =
          [threads EXCEPT
              !.cache = @ \cup {threads.proc[p].pending[threads.proc[p].i]},
              !.proc[p] = IF threads.proc[p].i < Len(threads.proc[p].pending)
                          THEN [threads.proc[p] EXCEPT !.pc = "set", !.i = @ + 1]
                          ELSE ThreadAtRest(threads.proc[p].calls)]
    /\ UNCHANGED <<risk_call, conf_call, batch>>
    /\ UNCHANGED <<response, kwpos, expl>>
    /\ UNCHANGED <<headers, body_text, urls, attachments, outcome, lev, now, llm_cache,
                   llm_calls, history, heap, ttl_cache, held, probe>>

NextThreads ==
    \E p \in ThreadIds :
        \/ ThreadCall(p)
        \/ ThreadAcquire(p)
        \/ ThreadRelease(p)
        \/ ThreadGetBegins(p)
        \/ ThreadGetEnds(p)
        \/ ThreadCallsLlm(p)
        \/ ThreadSetBegins(p)
        \/ ThreadSetEnds(p)

SpecThreads == InitThreads /\ [][NextThreads]_vars

\* ---------------------------------------------------------------------------
\* Claims about concurrent calls of analyze_payloads
\* ---------------------------------------------------------------------------

\* two different threads are inside an access to _CACHE
BothInCache == \E p, q \in ThreadIds : p # q /\ InCache(p) /\ InCache(q)

\* two different threads are inside an access to _CLIENTS
BothInClients == \E p, q \in ThreadIds : p # q /\ InClients(p) /\ InClients(q)

\* C16: with several analysis requests in flight, no two threads are at the
\* same time inside an access to the result cache, and no two are at the same
\* time inside the lookup-or-create of the client table.
C16_MutualExclusion ==
    threads # <<>> => ~BothInCache /\ ~BothInClients

\* the part the code keeps: the client table is only touched under
\* _CLIENT_LOCK, by the thread that holds it
ClientsUnderLock ==
    threads # <<>> =>
        /\ ~BothInClients
        /\ \A p \in ThreadIds : InClients(p) <=> threads.lock = p

\* two requests in flight and one of them inside a cache access
C16_Witness ==
    /\ threads # <<>>
    /\ \E p, q \in ThreadIds :
          /\ p # q
          /\ InCache(p)
          /\ threads.proc[q].pc \in {"get", "set"}

\* the thread has called the classifier for its pending payloads, the one of
\* key among them, and its call of analyze_payloads is still under way
InvokedFor(p, key) ==
    /\ threads.proc[p].pc \in {"set", "in_set"}
    /\ InSeq(key, threads.proc[p].pending)

\* the thread missed key in the cache and is about to call the classifier
AboutToInvokeFor(p, key) ==
    /\ threads.proc[p].pc = "call"
    /\ InSeq(key, threads.proc[p].pending)

\* C29: of the requests that run at the same time for one key the cache holds no
\* entry of, at most one invokes the classifier for that key.
C29_OneInvocationPerKey ==
    threads # <<>> =>
        \A p, q \in ThreadIds : \A key \in ThreadCacheKeys :
            InvokedFor(p, key) /\ InvokedFor(q, key) => p = q

\* two requests for one key are under way, the cache holds no entry of the key,
\* one has invoked the classifier for it and the other is about to
C29_Witness ==
    /\ threads # <<>>
    /\ \E p, q \in ThreadIds : \E key \in ThreadCacheKeys :
          /\ p # q
          /\ key \notin threads.cache
          /\ InvokedFor(p, key)
          /\ AboutToInvokeFor(q, key)

\* ---------------------------------------------------------------------------
\* backend/core/explain.py
\* ---------------------------------------------------------------------------

UpperChar(c) ==
    IF \E i \in 1..Len(LowerChars) : LowerChars[i] = c
    THEN UpperChars[CHOOSE i \in 1..Len(LowerChars) : LowerChars[i] = c]
    ELSE c

\* s.upper()
Upper(s) == [i \in 1..Len(s) |-> UpperChar(s[i])]

\* s.rstrip(chars)
RStripChars(s, chars) ==
    IF \A i \in 1..Len(s) : s[i] \in chars THEN <<>>
    ELSE SubSeq(s, 1, CHOOSE i \in 1..Len(s) :
                         s[i] \notin chars /\ \A j \in (i + 1)..Len(s) : s[j] \in chars)

\* the first index from i on whose character is in chars, Len(s) + 1 when none is
NextIn(s, i, chars) ==
    IF \E k \in i..Len(s) : s[k] \in chars
    THEN CHOOSE k \in i..Len(s) : s[k] \in chars /\ \A j \in i..(k - 1) : s[j] \notin chars
    ELSE Len(s) + 1

\* the first index from i on whose character is not in chars, Len(s) + 1 when none is
NextNotIn(s, i, chars) ==
    IF \E k \in i..Len(s) : s[k] \notin chars
    THEN CHOOSE k \in i..Len(s) : s[k] \notin chars /\ \A j \in i..(k - 1) : s[j] \in chars
    ELSE Len(s) + 1

\* sub occurs in s at index i
OccursAt(s, sub, i) == i >= 1 /\ i + Len(sub) - 1 <= Len(s) /\ SubSeq(s, i, i + Len(sub) - 1) = sub

RECURSIVE ReplaceAll(_, _, _)
\* s.replace(sub, rep)
ReplaceAll(s, sub, rep) ==
    IF ~Contains(s, sub) THEN s
    ELSE SubSeq(s, 1, Find(s, sub)) \o rep
         \o ReplaceAll(SubSeq(s, Find(s, sub) + Len(sub) + 1, Len(s)), sub, rep)

\* s.replace(sub, rep, 1)
ReplaceFirst(s, sub, rep) ==
    IF ~Contains(s, sub) THEN s
    ELSE SubSeq(s, 1, Find(s, sub)) \o rep \o SubSeq(s, Find(s, sub) + Len(sub) + 1, Len(s))

RECURSIVE DigitsToInt(_)
\* int() of a string of digits
DigitsToInt(digits) ==
    IF digits = <<>> THEN 0
    ELSE 10 * DigitsToInt(SubSeq(digits, 1, Len(digits) - 1))
         + (CHOOSE n \in 0..9 : DigitSeq[n + 1] = digits[Len(digits)])

RECURSIVE FromKeys(_, _)
\* list(dict.fromkeys(items)): the distinct items in first-seen order
FromKeys(items, seen) ==
    IF items = <<>> THEN <<>>
    ELSE IF Head(items) \in seen THEN FromKeys(Tail(items), seen)
    ELSE <<Head(items)>> \o FromKeys(Tail(items), seen \cup {Head(items)})

\* items[:n]
Prefix(items, n) == SubSeq(items, 1, Min2(n, Len(items)))

\* POINT_PREFIX_PATTERN.match(s), ^([+-]\d+)\s+points?:\s*(.*)$ with IGNORECASE,
\* once the digits end before d and the white space after them before w
PointPrefixFrom(s, d, w, colon) ==
    IF /\ d > 2
       /\ w > d
       /\ Lower(SubSeq(s, w, Min2(w + 4, Len(s)))) = <<"p","o","i","n","t">>
       /\ colon <= Len(s)
       /\ s[colon] = ":"
       /\ ~InSeq("\n", SubSeq(s, NextNotIn(s, colon + 1, WhitespaceChars), Len(s)))
    THEN [matched |-> TRUE,
          delta |-> IF s[1] = "-" THEN 0 - DigitsToInt(SubSeq(s, 2, d - 1))
                    ELSE DigitsToInt(SubSeq(s, 2, d - 1)),
          rest |-> SubSeq(s, NextNotIn(s, colon + 1, WhitespaceChars), Len(s))]
    ELSE [matched |-> FALSE]

\* where the colon of "point:" or "points:" has to be when the word starts at w
ColonAfterWord(s, w) ==
    IF w + 5 <= Len(s) /\ Lower(<<s[w + 5]>>) = <<"s">> THEN w + 6 ELSE w + 5

PointPrefixMatch(s) ==
    IF s = <<>> \/ s[1] \notin {"+", "-"} THEN [matched |-> FALSE]
    ELSE PointPrefixFrom(s, NextNotIn(s, 2, DigitChars),
                         NextNotIn(s, NextNotIn(s, 2, DigitChars), WhitespaceChars),
                         ColonAfterWord(s, NextNotIn(s, NextNotIn(s, 2, DigitChars),
                                                     WhitespaceChars)))

\* (delta, description); delta is {} for None and {n} for the integer n
SplitPointsOf(reason, match) ==
    IF ~match.matched THEN [delta |-> {}, description |-> reason]
    ELSE [delta |-> {match.delta}, description |-> Strip(match.rest)]

_split_points(reason) == SplitPointsOf(reason, PointPrefixMatch(Strip(reason)))

\* the prefix of a delta that is neither None nor 0
ScorePrefixOf(n) ==
    IntToStr(Abs(n)) \o <<"-">>
    \o (IF Abs(n) = 1 THEN <<"p","o","i","n","t">> ELSE <<"p","o","i","n","t","s">>) \o <<" ">>
    \o (IF n > 0 THEN <<"i","n","d","i","c","a","t","o","r">> ELSE <<"m","i","t","i","g","a","t","i","o","n">>) \o <<":"," ">>

_score_prefix(delta) ==
    IF delta = {} \/ delta = {0} THEN <<>>
    ELSE ScorePrefixOf(CHOOSE n \in delta : TRUE)

\* every handler passes an action
_compose_line(delta, explanation, action) ==
    IF action # <<>>
    THEN _score_prefix(delta) \o RStripChars(explanation, {".", " "}) \o <<".">>
         \o <<" ","A","c","t","i","o","n",":"," ">> \o RStripChars(action, {".", " "}) \o <<".">>
    ELSE _score_prefix(delta) \o RStripChars(explanation, {".", " "}) \o <<".">>

RECURSIVE ParenScan(_, _)
\* the matches of \(([^)]+)\) in text from index i on, each stripped
ParenScan(text, i) ==
    IF NextIn(text, i, {"("}) > Len(text) THEN <<>>
    ELSE IF NextIn(text, NextIn(text, i, {"("}) + 1, {")"}) > Len(text) THEN <<>>
    ELSE IF NextIn(text, NextIn(text, i, {"("}) + 1, {")"}) = NextIn(text, i, {"("}) + 1
         THEN ParenScan(text, NextIn(text, i, {"("}) + 1)
    ELSE <<Strip(SubSeq(text, NextIn(text, i, {"("}) + 1,
                        NextIn(text, NextIn(text, i, {"("}) + 1, {")"}) - 1))>>
         \o ParenScan(text, NextIn(text, NextIn(text, i, {"("}) + 1, {")"}) + 1)

_extract_parentheticals(text) == ParenScan(text, 1)

\* parts[n] if len(parts) > n else default, n counted from 0
PartOr(parts, n, default) == IF Len(parts) > n THEN parts[n + 1] ELSE default

\* re.search(r"\((.+?)\s+in\s+([^)]+)\)", d) can match with "(" at i and the
\* white space after the first group starting at j, "in" standing at k
ConfusableTail(d, k) ==
    /\ OccursAt(d, <<"i","n">>, k)
    /\ k + 2 <= Len(d)
    /\ d[k + 2] \in WhitespaceChars
    /\ NextIn(d, k + 2, {")"}) <= Len(d)
    /\ NextIn(d, k + 2, {")"}) >= k + 4

ConfusableAt(d, i, j) ==
    /\ d[i] = "("
    /\ j >= i + 2
    /\ ~InSeq("\n", SubSeq(d, i + 1, j - 1))
    /\ d[j] \in WhitespaceChars
    /\ ConfusableTail(d, NextNotIn(d, j, WhitespaceChars))

\* the second group: what follows the white space after "in", up to the ")"
ConfusableDomain(d, from, close) ==
    IF NextNotIn(d, from, WhitespaceChars) >= close THEN <<d[close - 1]>>
    ELSE SubSeq(d, NextNotIn(d, from, WhitespaceChars), close - 1)

\* the leftmost match with the shortest first group: (reason, domain)
ConfusableGroups(d, i, j) ==
    <<SubSeq(d, i + 1, j - 1),
      ConfusableDomain(d, NextNotIn(d, j, WhitespaceChars) + 2,
                       NextIn(d, NextNotIn(d, j, WhitespaceChars) + 2, {")"}))>>

ConfusableSearch(d) ==
    IF \E i, j \in 1..Len(d) : ConfusableAt(d, i, j)
    THEN LET i == CHOOSE i \in 1..Len(d) :
                      /\ \E j \in 1..Len(d) : ConfusableAt(d, i, j)
                      /\ \A h \in 1..(i - 1) : \A j \in 1..Len(d) : ~ConfusableAt(d, h, j)
         IN  ConfusableGroups(d, i, CHOOSE j \in 1..Len(d) :
                                        /\ ConfusableAt(d, i, j)
                                        /\ \A h \in 1..(j - 1) : ~ConfusableAt(d, i, h))
    ELSE None

\* re.search(r"Keyword '(.+?)' in (.+)", d) can match with "Keyword '" at i and
\* the closing "' in " at j
KeywordAt(d, i, j) ==
    /\ OccursAt(d, <<"K","e","y","w","o","r","d"," ","'">>, i)
    /\ j >= i + 10
    /\ ~InSeq("\n", SubSeq(d, i + 9, j - 1))
    /\ OccursAt(d, <<"'"," ","i","n"," ">>, j)
    /\ j + 5 <= Len(d)
    /\ d[j + 5] # "\n"

KeywordSearch(d) ==
    IF \E i, j \in 1..Len(d) : KeywordAt(d, i, j)
    THEN LET i == CHOOSE i \in 1..Len(d) :
                      /\ \E j \in 1..Len(d) : KeywordAt(d, i, j)
                      /\ \A h \in 1..(i - 1) : \A j \in 1..Len(d) : ~KeywordAt(d, h, j)
             j == CHOOSE j \in 1..Len(d) :
                      /\ KeywordAt(d, i, j)
                      /\ \A h \in 1..(j - 1) : ~KeywordAt(d, i, h)
         IN  <<SubSeq(d, i + 9, j - 1), SubSeq(d, j + 5, NextIn(d, j + 5, {"\n"}) - 1)>>
    ELSE None

\* re.search(r"Suspicious URL\s+(\S+)\s+\(([^)]+)\)", d) with the URL from u up
\* to e - 1 and the "(" at p
UrlShape(d, u, e, p) ==
    /\ u <= Len(d)
    /\ e <= Len(d)
    /\ p <= Len(d)
    /\ d[p] = "("
    /\ NextIn(d, p + 1, {")"}) <= Len(d)
    /\ NextIn(d, p + 1, {")"}) > p + 1

UrlEnds(d, u) == NextIn(d, u, WhitespaceChars)

UrlAt(d, i) ==
    /\ OccursAt(d, <<"S","u","s","p","i","c","i","o","u","s"," ","U","R","L">>, i)
    /\ i + 14 <= Len(d)
    /\ d[i + 14] \in WhitespaceChars
    /\ UrlShape(d, NextNotIn(d, i + 14, WhitespaceChars),
                UrlEnds(d, NextNotIn(d, i + 14, WhitespaceChars)),
                NextNotIn(d, UrlEnds(d, NextNotIn(d, i + 14, WhitespaceChars)),
                          WhitespaceChars))

UrlGroups(d, u, e, p) ==
    <<SubSeq(d, u, e - 1), SubSeq(d, p + 1, NextIn(d, p + 1, {")"}) - 1)>>

UrlSearch(d) ==
    IF \E i \in 1..Len(d) : UrlAt(d, i)
    THEN LET i == CHOOSE i \in 1..Len(d) : UrlAt(d, i) /\ \A h \in 1..(i - 1) : ~UrlAt(d, h)
         IN  UrlGroups(d, NextNotIn(d, i + 14, WhitespaceChars),
                       UrlEnds(d, NextNotIn(d, i + 14, WhitespaceChars)),
                       NextNotIn(d, UrlEnds(d, NextNotIn(d, i + 14, WhitespaceChars)),
                                 WhitespaceChars))
    ELSE None

\* re.search(word + r"\s+(.+)$", d) can match with the word at i
WordRestAt(d, word, i) ==
    /\ OccursAt(d, word, i)
    /\ i + Len(word) <= Len(d)
    /\ d[i + Len(word)] \in WhitespaceChars
    /\ NextNotIn(d, i + Len(word), WhitespaceChars) <= Len(d)
    /\ ~InSeq("\n", SubSeq(d, NextNotIn(d, i + Len(word), WhitespaceChars), Len(d)))

\* its group, None when there is no match
WordRestSearch(d, word) ==
    IF \E i \in 1..Len(d) : WordRestAt(d, word, i)
    THEN LET i == CHOOSE i \in 1..Len(d) :
                      WordRestAt(d, word, i) /\ \A h \in 1..(i - 1) : ~WordRestAt(d, word, h)
         IN  SubSeq(d, NextNotIn(d, i + Len(word), WhitespaceChars), Len(d))
    ELSE None

_handle_reply_to_mismatch(delta, description) ==
    _compose_line(delta,
        <<"T","h","e"," ","r","e","p","l","y","-","t","o"," ","a","d","d","r","e","s","s"," ","r","o","u","t","e","s"," ","r","e","s","p","o","n","s","e","s"," ","t","o"," ">>
        \o PartOr(_extract_parentheticals(description), 0, <<"a","n"," ","u","n","k","n","o","w","n"," ","d","o","m","a","i","n">>)
        \o <<","," ","w","h","i","c","h"," ","d","i","f","f","e","r","s"," ","f","r","o","m"," ","t","h","e"," ","v","i","s","i","b","l","e"," ","s","e","n","d","e","r"," ","d","o","m","a","i","n","."," ","A","t","t","a","c","k","e","r","s"," ","o","f","t","e","n"," ","r","e","d","i","r","e","c","t"," ","r","e","p","l","i","e","s"," ","t","o"," ","c","a","p","t","u","r","e"," ","s","e","n","s","i","t","i","v","e"," ","i","n","f","o","r","m","a","t","i","o","n",".">>,
        <<"C","o","n","f","i","r","m"," ","t","h","e"," ","r","e","q","u","e","s","t"," ","u","s","i","n","g"," ","a"," ","k","n","o","w","n","-","g","o","o","d"," ","c","h","a","n","n","e","l"," ","b","e","f","o","r","e"," ","r","e","p","l","y","i","n","g",".">>)

_handle_return_path_mismatch(delta, description) ==
    _compose_line(delta,
        <<"T","h","e"," ","r","e","t","u","r","n","-","p","a","t","h"," ","d","o","m","a","i","n"," ">>
        \o PartOr(_extract_parentheticals(description), 0, <<"a","n"," ","u","n","k","n","o","w","n"," ","d","o","m","a","i","n">>)
        \o <<" ","d","o","e","s"," ","n","o","t"," ","m","a","t","c","h"," ","t","h","e"," ","F","r","o","m"," ","a","d","d","r","e","s","s",","," ","s","u","g","g","e","s","t","i","n","g"," ","t","h","e"," ","e","m","a","i","l"," ","m","a","y"," ","h","a","v","e"," ","b","e","e","n"," ","s","e","n","t"," ","f","r","o","m"," ","a","n"," ","u","n","e","x","p","e","c","t","e","d"," ","s","y","s","t","e","m",".">>,
        <<"I","n","s","p","e","c","t"," ","t","h","e"," ","h","e","a","d","e","r","s"," ","o","r"," ","i","n","v","o","l","v","e"," ","s","e","c","u","r","i","t","y"," ","b","e","f","o","r","e"," ","t","r","u","s","t","i","n","g"," ","t","h","e"," ","m","e","s","s","a","g","e",".">>)

ConfusableLine(delta, reason, domain) ==
    _compose_line(delta,
        <<"T","h","e"," ","s","e","n","d","e","r"," ","d","o","m","a","i","n"," ">> \o domain \o <<" ","u","s","e","s"," ">> \o reason
        \o <<","," ","w","h","i","c","h"," ","c","a","n"," ","m","i","m","i","c"," ","a"," ","t","r","u","s","t","e","d"," ","b","r","a","n","d"," ","o","r"," ","s","e","r","v","i","c","e",".">>,
        <<"C","o","m","p","a","r","e"," ","t","h","e"," ","d","o","m","a","i","n"," ","c","a","r","e","f","u","l","l","y"," ","a","n","d"," ","a","v","o","i","d"," ","l","o","g","g","i","n","g"," ","i","n"," ","v","i","a"," ","l","i","n","k","s"," ","i","n"," ","t","h","e"," ","e","m","a","i","l",".">>)

ConfusableFrom(delta, description, match) ==
    IF match # None THEN ConfusableLine(delta, match[1], match[2])
    ELSE ConfusableLine(delta,
             PartOr(_extract_parentheticals(description), 0, <<"c","o","n","f","u","s","a","b","l","e"," ","c","h","a","r","a","c","t","e","r","s">>),
             PartOr(_extract_parentheticals(description), 1, <<"t","h","e"," ","s","e","n","d","e","r"," ","d","o","m","a","i","n">>))

_handle_confusable_domain(delta, description) ==
    ConfusableFrom(delta, description, ConfusableSearch(description))

_handle_free_provider_brand(delta, description) ==
    _compose_line(delta,
        <<"T","h","e"," ","m","e","s","s","a","g","e"," ","o","r","i","g","i","n","a","t","e","s"," ","f","r","o","m"," ","t","h","e"," ","f","r","e","e"," ","e","m","a","i","l"," ","p","r","o","v","i","d","e","r"," ">>
        \o PartOr(_extract_parentheticals(description), 0, <<"a"," ","f","r","e","e"," ","p","r","o","v","i","d","e","r">>)
        \o <<" ","w","h","i","l","e"," ","r","e","f","e","r","e","n","c","i","n","g"," ">>
        \o PartOr(_extract_parentheticals(description), 1, <<"a"," ","w","e","l","l","-","k","n","o","w","n"," ","b","r","a","n","d">>)
        \o <<","," ","a"," ","c","o","m","m","o","n"," ","i","m","p","e","r","s","o","n","a","t","i","o","n"," ","t","a","c","t","i","c",".">>,
        <<"R","e","a","c","h"," ","o","u","t"," ","t","h","r","o","u","g","h"," ","t","h","e"," ","b","r","a","n","d","'","s"," ","o","f","f","i","c","i","a","l"," ","s","u","p","p","o","r","t"," ","c","h","a","n","n","e","l","s"," ","b","e","f","o","r","e"," ","c","o","m","p","l","y","i","n","g",".">>)

_handle_received_anomaly(delta, description) ==
    _compose_line(delta,
        <<"T","h","e"," ","R","e","c","e","i","v","e","d"," ","h","e","a","d","e","r","s"," ","s","h","o","w"," ">>
        \o PartOr(_extract_parentheticals(description), 0, <<"u","n","e","x","p","e","c","t","e","d"," ","r","o","u","t","i","n","g"," ","b","e","h","a","v","i","o","u","r">>)
        \o <<","," ","i","n","d","i","c","a","t","i","n","g"," ","t","h","e"," ","e","m","a","i","l"," ","m","a","y"," ","h","a","v","e"," ","b","y","p","a","s","s","e","d"," ","e","x","p","e","c","t","e","d"," ","m","a","i","l"," ","s","e","r","v","e","r","s",".">>,
        <<"L","e","t"," ","y","o","u","r"," ","m","a","i","l"," ","o","r"," ","s","e","c","u","r","i","t","y"," ","t","e","a","m"," ","r","e","v","i","e","w"," ","t","h","e"," ","f","u","l","l"," ","h","e","a","d","e","r","s",".">>)

_handle_message_id_mismatch(delta, description) ==
    _compose_line(delta,
        <<"T","h","e"," ","M","e","s","s","a","g","e","-","I","D"," ","d","o","m","a","i","n"," ","d","i","f","f","e","r","s"," ","f","r","o","m"," ","t","h","e"," ","s","e","n","d","e","r"," ","(">>
        \o PartOr(_extract_parentheticals(description), 0, <<"a","n"," ","u","n","k","n","o","w","n"," ","d","o","m","a","i","n">>)
        \o <<")",","," ","w","h","i","c","h"," ","i","s"," ","o","f","t","e","n"," ","s","e","e","n"," ","i","n"," ","f","o","r","g","e","d"," ","e","m","a","i","l","s",".">>,
        <<"V","e","r","i","f","y"," ","t","h","e"," ","s","e","n","d","e","r","'","s"," ","l","e","g","i","t","i","m","a","c","y"," ","b","e","f","o","r","e"," ","f","o","l","l","o","w","i","n","g"," ","a","n","y"," ","i","n","s","t","r","u","c","t","i","o","n","s",".">>)

\* ", ".join(kw.strip() for kw in keywords_text.split(",") if kw.strip()) or keywords_text
KeywordList(keywords_text, kept) ==
    IF Join(kept, <<","," ">>) # <<>> THEN Join(kept, <<","," ">>) ELSE keywords_text

KeywordGroupLine(delta, keywords_text) ==
    _compose_line(delta,
        <<"T","h","e"," ","c","o","n","t","e","n","t"," ","c","o","n","t","a","i","n","s"," ","k","n","o","w","n"," ","p","h","i","s","h","i","n","g"," ","k","e","y","w","o","r","d","s"," ","(">>
        \o KeywordList(keywords_text,
               SelectSeq([n \in 1..Len(Split(keywords_text, ",")) |->
                             Strip(Split(keywords_text, ",")[n])],
                         LAMBDA kw : kw # <<>>))
        \o <<")",","," ","s","i","g","n","a","l","l","i","n","g"," ","s","o","c","i","a","l"," ","e","n","g","i","n","e","e","r","i","n","g"," ","l","a","n","g","u","a","g","e",".">>,
        <<"S","c","r","u","t","i","n","i","s","e"," ","t","h","e"," ","r","e","q","u","e","s","t"," ","a","n","d"," ","c","o","n","f","i","r","m"," ","i","t"," ","v","i","a"," ","a","n","o","t","h","e","r"," ","m","e","d","i","u","m"," ","b","e","f","o","r","e"," ","a","c","t","i","n","g",".">>)

_handle_keyword_group(delta, description) ==
    KeywordGroupLine(delta,
        PartOr(_extract_parentheticals(description), 0, <<"h","i","g","h","-","r","i","s","k"," ","k","e","y","w","o","r","d","s">>))

SingleKeywordLine(delta, keyword, location) ==
    _compose_line(delta,
        <<"T","h","e"," ">> \o location \o <<" ","i","n","c","l","u","d","e","s"," ","t","h","e"," ","p","h","i","s","h","i","n","g"," ","t","r","i","g","g","e","r"," ","w","o","r","d"," ","'">> \o keyword
        \o <<"'",","," ","w","h","i","c","h"," ","a","t","t","a","c","k","e","r","s"," ","u","s","e"," ","t","o"," ","c","r","e","a","t","e"," ","u","r","g","e","n","c","y",".">>,
        <<"S","l","o","w"," ","d","o","w","n"," ","a","n","d"," ","c","o","n","f","i","r","m"," ","t","h","e"," ","l","e","g","i","t","i","m","a","c","y"," ","o","f"," ","t","h","e"," ","r","e","q","u","e","s","t"," ","b","e","f","o","r","e"," ","r","e","s","p","o","n","d","i","n","g",".">>)

SingleKeywordFrom(delta, match) ==
    IF match # None
    THEN SingleKeywordLine(delta, match[1], ReplaceAll(match[2], <<"_">>, <<" ">>))
    ELSE SingleKeywordLine(delta, <<"h","i","g","h","-","r","i","s","k"," ","l","a","n","g","u","a","g","e">>, <<"t","h","e"," ","m","e","s","s","a","g","e">>)

_handle_single_keyword(delta, description) ==
    SingleKeywordFrom(delta, KeywordSearch(description))

SuspiciousUrlLine(delta, url, reason) ==
    _compose_line(delta,
        <<"T","h","e"," ","l","i","n","k"," ">> \o url \o <<" ","l","o","o","k","s"," ","r","i","s","k","y"," ","(">> \o reason \o <<")",".">>,
        <<"D","o"," ","n","o","t"," ","c","l","i","c","k"," ","t","h","e"," ","l","i","n","k",";"," ","b","r","o","w","s","e"," ","t","o"," ","t","h","e"," ","s","i","t","e"," ","m","a","n","u","a","l","l","y"," ","i","f"," ","y","o","u"," ","n","e","e","d"," ","t","o"," ","v","e","r","i","f","y"," ","i","t",".">>)

SuspiciousUrlFrom(delta, match) ==
    IF match # None THEN SuspiciousUrlLine(delta, match[1], match[2])
    ELSE SuspiciousUrlLine(delta, <<"a"," ","l","i","n","k","e","d"," ","s","i","t","e">>, <<"s","u","s","p","i","c","i","o","u","s"," ","c","h","a","r","a","c","t","e","r","i","s","t","i","c","s">>)

_handle_suspicious_url(delta, description) ==
    SuspiciousUrlFrom(delta, UrlSearch(description))

DangerousLine(delta, attachment) ==
    _compose_line(delta,
        <<"T","h","e"," ","a","t","t","a","c","h","m","e","n","t"," ">> \o attachment
        \o <<" ","u","s","e","s"," ","a"," ","h","i","g","h","-","r","i","s","k"," ","f","i","l","e"," ","t","y","p","e"," ","o","f","t","e","n"," ","a","s","s","o","c","i","a","t","e","d"," ","w","i","t","h"," ","m","a","l","w","a","r","e",".">>,
        <<"D","e","l","e","t","e"," ","t","h","e"," ","a","t","t","a","c","h","m","e","n","t"," ","a","n","d"," ","o","n","l","y"," ","o","p","e","n"," ","f","i","l","e","s"," ","t","h","a","t"," ","s","e","c","u","r","i","t","y"," ","h","a","s"," ","a","p","p","r","o","v","e","d",".">>)

DangerousFrom(delta, group) ==
    IF group # None THEN DangerousLine(delta, group) ELSE DangerousLine(delta, <<"t","h","e"," ","a","t","t","a","c","h","m","e","n","t">>)

_handle_dangerous_attachment(delta, description) ==
    DangerousFrom(delta, WordRestSearch(description, <<"i","n">>))

ArchiveLine(delta, attachment) ==
    _compose_line(delta,
        <<"T","h","e"," ","a","r","c","h","i","v","e"," ">> \o attachment \o <<" ","c","o","u","l","d"," ","c","o","n","c","e","a","l"," ","m","a","l","i","c","i","o","u","s"," ","p","a","y","l","o","a","d","s",".">>,
        <<"D","o"," ","n","o","t"," ","e","x","t","r","a","c","t"," ","o","r"," ","o","p","e","n"," ","t","h","e"," ","a","r","c","h","i","v","e"," ","u","n","t","i","l"," ","s","e","c","u","r","i","t","y"," ","c","l","e","a","r","s"," ","i","t",".">>)

ArchiveFrom(delta, group) ==
    IF group # None THEN ArchiveLine(delta, group) ELSE ArchiveLine(delta, <<"t","h","e"," ","a","r","c","h","i","v","e">>)

_handle_archive_attachment(delta, description) ==
    ArchiveFrom(delta, WordRestSearch(description, <<"a","t","t","a","c","h","m","e","n","t">>))

_handle_whitelist_hit(delta, description) ==
    _compose_line(delta,
        <<"T","h","e"," ","s","e","n","d","e","r"," ","d","o","m","a","i","n"," ">> \o Strip(ReplaceAll(description, <<"i","n"," ","w","h","i","t","e","l","i","s","t">>, <<>>))
        \o <<" ","i","s"," ","o","n"," ","t","h","e"," ","w","h","i","t","e","l","i","s","t",","," ","r","e","d","u","c","i","n","g"," ","t","h","e"," ","s","c","o","r","e"," ","d","e","s","p","i","t","e"," ","o","t","h","e","r"," ","i","n","d","i","c","a","t","o","r","s",".">>,
        <<"D","o","u","b","l","e","-","c","h","e","c","k"," ","t","h","a","t"," ","t","h","e"," ","w","h","i","t","e","l","i","s","t"," ","e","n","t","r","y"," ","i","s"," ","s","t","i","l","l"," ","a","p","p","r","o","p","r","i","a","t","e"," ","i","f"," ","t","h","e"," ","e","m","a","i","l"," ","f","e","e","l","s"," ","s","u","s","p","i","c","i","o","u","s",".">>)

\* the handler_map loop and the fallback, on the stripped description
HumanizeFrom(delta, description) ==
    IF Contains(description, <<"R","e","p","l","y","-","t","o"," ","d","o","m","a","i","n"," ","d","i","f","f","e","r","s">>)
    THEN _handle_reply_to_mismatch(delta, description)
    ELSE IF Contains(description, <<"R","e","t","u","r","n","-","p","a","t","h"," ","d","o","m","a","i","n"," ","d","i","f","f","e","r","s">>)
    THEN _handle_return_path_mismatch(delta, description)
    ELSE IF Contains(description, <<"F","r","o","m"," ","d","o","m","a","i","n"," ","c","o","n","t","a","i","n","s"," ","I","D","N">>)
    THEN _handle_confusable_domain(delta, description)
    ELSE IF Contains(description, <<"F","r","e","e"," ","e","m","a","i","l"," ","p","r","o","v","i","d","e","r">>)
    THEN _handle_free_provider_brand(delta, description)
    ELSE IF Contains(description, <<"A","n","o","m","a","l","o","u","s"," ","R","e","c","e","i","v","e","d"," ","h","e","a","d","e","r","s">>)
    THEN _handle_received_anomaly(delta, description)
    ELSE IF Contains(description, <<"M","e","s","s","a","g","e","-","I","D"," ","d","o","m","a","i","n"," ","m","i","s","m","a","t","c","h">>)
    THEN _handle_message_id_mismatch(delta, description)
    ELSE IF Contains(description, <<"M","a","t","c","h","e","d"," ","p","h","i","s","h","i","n","g"," ","k","e","y","w","o","r","d","s">>)
    THEN _handle_keyword_group(delta, description)
    ELSE IF Contains(description, <<"K","e","y","w","o","r","d"," ","'">>)
    THEN _handle_single_keyword(delta, description)
    ELSE IF Contains(description, <<"S","u","s","p","i","c","i","o","u","s"," ","U","R","L">>)
    THEN _handle_suspicious_url(delta, description)
    ELSE IF Contains(description, <<"D","a","n","g","e","r","o","u","s"," ","a","t","t","a","c","h","m","e","n","t"," ","e","x","t","e","n","s","i","o","n">>)
    THEN _handle_dangerous_attachment(delta, description)
    ELSE IF Contains(description, <<"S","u","s","p","i","c","i","o","u","s"," ","a","r","c","h","i","v","e"," ","a","t","t","a","c","h","m","e","n","t">>)
    THEN _handle_archive_attachment(delta, description)
    ELSE IF Contains(description, <<"i","n"," ","w","h","i","t","e","l","i","s","t">>)
    THEN _handle_whitelist_hit(delta, description)
    ELSE _compose_line(delta, <<"I","n","d","i","c","a","t","o","r",":"," ">> \o description,
             <<"V","e","r","i","f","y"," ","t","h","e"," ","m","e","s","s","a","g","e"," ","w","i","t","h"," ","t","h","e"," ","s","e","n","d","e","r"," ","v","i","a"," ","a"," ","t","r","u","s","t","e","d"," ","c","h","a","n","n","e","l"," ","b","e","f","o","r","e"," ","t","a","k","i","n","g"," ","a","c","t","i","o","n",".">>)

_humanize_reason(reason) ==
    HumanizeFrom(_split_points(reason).delta, Strip(_split_points(reason).description))

SeverityText(label) ==
    IF label = <<"H","I","G","H">> THEN <<"H","i","g","h"," ","r","i","s","k"," ","p","h","i","s","h","i","n","g"," ","a","l","e","r","t">>
    ELSE IF label = <<"M","E","D","I","U","M">> THEN <<"E","l","e","v","a","t","e","d"," ","p","h","i","s","h","i","n","g"," ","r","i","s","k">>
    ELSE IF label = <<"L","O","W">> THEN <<"L","o","w"," ","p","h","i","s","h","i","n","g"," ","r","i","s","k">>
    ELSE <<"P","h","i","s","h","i","n","g"," ","a","s","s","e","s","s","m","e","n","t">>

GuidanceText(label) ==
    IF label = <<"H","I","G","H">>
    THEN <<"T","r","e","a","t"," ","t","h","i","s"," ","m","e","s","s","a","g","e"," ","a","s"," ","m","a","l","i","c","i","o","u","s"," ","u","n","l","e","s","s"," ","y","o","u"," ","c","a","n"," ","i","n","d","e","p","e","n","d","e","n","t","l","y"," ","v","e","r","i","f","y"," ","t","h","e"," ","s","e","n","d","e","r",".">>
    ELSE IF label = <<"M","E","D","I","U","M">>
    THEN <<"P","r","o","c","e","e","d"," ","w","i","t","h"," ","c","a","u","t","i","o","n"," ","a","n","d"," ","c","o","n","f","i","r","m"," ","k","e","y"," ","d","e","t","a","i","l","s"," ","b","e","f","o","r","e"," ","a","c","t","i","n","g",".">>
    ELSE IF label = <<"L","O","W">>
    THEN <<"N","o"," ","i","m","m","e","d","i","a","t","e"," ","r","e","d"," ","f","l","a","g","s"," ","w","e","r","e"," ","d","e","t","e","c","t","e","d",","," ","b","u","t"," ","s","t","a","y"," ","v","i","g","i","l","a","n","t",".">>
    ELSE <<>>

_build_summary(label, score, matched_keywords) ==
    SeverityText(label) \o <<":"," ","c","o","m","p","o","s","i","t","e"," ","s","c","o","r","e"," ">> \o IntToStr(score) \o <<"."," ">>
    \o GuidanceText(label)
    \o (IF matched_keywords # <<>>
        THEN <<" ","F","l","a","g","g","e","d"," ","k","e","y","w","o","r","d","s",":"," ">>
             \o Join(Prefix(FromKeys(matched_keywords, {}), 3), <<","," ">>) \o <<".">>
        ELSE <<>>)

_stringify_url(url) == geturl(url)

RECURSIVE UrlActions(_, _)
\* the loop of lines 100-106 over the (url, reasons) pairs
UrlActions(suspicious_urls, seen_urls) ==
    IF suspicious_urls = <<>> THEN <<>>
    ELSE IF /\ _stringify_url(Head(suspicious_urls)[1]) # <<>>
            /\ _stringify_url(Head(suspicious_urls)[1]) \notin seen_urls
    THEN <<<<"N","e","x","t"," ","s","t","e","p",":"," ","D","o"," ","n","o","t"," ","v","i","s","i","t"," ">> \o _stringify_url(Head(suspicious_urls)[1])
           \o <<";"," ","n","a","v","i","g","a","t","e"," ","t","o"," ","t","h","e"," ","d","e","s","t","i","n","a","t","i","o","n"," ","u","s","i","n","g"," ","a"," ","b","o","o","k","m","a","r","k"," ","o","r"," ","m","a","n","u","a","l","l","y"," ","t","y","p","e","d"," ","a","d","d","r","e","s","s"," ","i","n","s","t","e","a","d",".">>>>
         \o UrlActions(Tail(suspicious_urls),
                       seen_urls \cup {_stringify_url(Head(suspicious_urls)[1])})
    ELSE UrlActions(Tail(suspicious_urls), seen_urls)

_general_actions(label, suspicious_urls, attachment_names, has_attachment_signal) ==
    <<<<"N","e","x","t"," ","s","t","e","p",":"," ","V","e","r","i","f","y"," ","t","h","e"," ","s","e","n","d","e","r"," ","u","s","i","n","g"," ","a"," ","t","r","u","s","t","e","d"," ","c","o","n","t","a","c","t"," ","m","e","t","h","o","d"," ","b","e","f","o","r","e"," ","r","e","s","p","o","n","d","i","n","g"," ","o","r"," ","s","h","a","r","i","n","g"," ","i","n","f","o","r","m","a","t","i","o","n",".">>>>
    \o UrlActions(suspicious_urls, {})
    \o (IF ~has_attachment_signal THEN <<>>
        ELSE IF attachment_names # <<>>
        THEN <<<<"N","e","x","t"," ","s","t","e","p",":"," ","D","e","l","e","t","e"," ","o","r"," ","q","u","a","r","a","n","t","i","n","e"," ","a","t","t","a","c","h","m","e","n","t","s"," ","(">>
               \o Join(Prefix(FromKeys(attachment_names, {}), 2), <<","," ">>)
               \o <<")"," ","u","n","t","i","l"," ","s","e","c","u","r","i","t","y"," ","c","o","n","f","i","r","m","s"," ","t","h","e","y"," ","a","r","e"," ","s","a","f","e",".">>>>
        ELSE <<<<"N","e","x","t"," ","s","t","e","p",":"," ","D","e","l","e","t","e"," ","a","n","y"," ","a","t","t","a","c","h","m","e","n","t","s"," ","f","r","o","m"," ","t","h","i","s"," ","e","m","a","i","l"," ","a","n","d"," ","o","n","l","y"," ","o","p","e","n"," ","f","i","l","e","s"," ","t","h","a","t"," ","s","e","c","u","r","i","t","y"," ","h","a","s"," ","c","l","e","a","r","e","d",".">>>>)
    \o (IF label = <<"H","I","G","H">>
        THEN <<<<"N","e","x","t"," ","s","t","e","p",":"," ","R","e","p","o","r","t"," ","t","h","i","s"," ","m","e","s","s","a","g","e"," ","t","o"," ","y","o","u","r"," ","s","e","c","u","r","i","t","y"," ","o","r"," ","I","T"," ","r","e","s","p","o","n","s","e"," ","t","e","a","m"," ","a","n","d"," ","r","e","m","o","v","e"," ","i","t"," ","f","r","o","m"," ","y","o","u","r"," ","i","n","b","o","x",".">>>>
        ELSE <<>>)

\* text.split('Action:', 1)[1].strip().rstrip('. ') or None
_extract_action_clause(text) ==
    IF ~Contains(text, <<"A","c","t","i","o","n",":">>) THEN None
    ELSE IF RStripChars(Strip(SubSeq(text, Find(text, <<"A","c","t","i","o","n",":">>) + 8, Len(text))),
                        {".", " "}) = <<>>
    THEN None
    ELSE RStripChars(Strip(SubSeq(text, Find(text, <<"A","c","t","i","o","n",":">>) + 8, Len(text))), {".", " "})

\* raw.replace('Next step:', '', 1).strip().rstrip('. ')
NormalizedAction(raw) ==
    RStripChars(Strip(ReplaceFirst(raw, <<"N","e","x","t"," ","s","t","e","p",":">>, <<>>)), {".", " "})

RECURSIVE CollectClauses(_, _)
\* one of the two loops of _collect_action_items, over the clauses in order
CollectClauses(clauses, seen) ==
    IF clauses = <<>> THEN <<>>
    ELSE IF Head(clauses) # None /\ Head(clauses) # <<>> /\ Head(clauses) \notin seen
    THEN <<Head(clauses)>> \o CollectClauses(Tail(clauses), seen \cup {Head(clauses)})
    ELSE CollectClauses(Tail(clauses), seen)

_collect_action_items(detail_lines, general_actions) ==
    CollectClauses([n \in 1..Len(detail_lines) |-> _extract_action_clause(detail_lines[n])]
                   \o [n \in 1..Len(general_actions) |-> NormalizedAction(general_actions[n])],
                   {})

_format_action_summary(actions, limit) ==
    <<"A","c","t","i","o","n"," ","c","h","e","c","k","l","i","s","t",":"," ">> \o Join(Prefix(actions, limit), <<";"," ">>)
    \o (IF Len(actions) > limit THEN <<";"," ",".",".",".">> ELSE <<>>) \o <<".">>

\* lines 26-42: the humanized reasons, or the default line of the label
DetailLines(reasons, label_upper) ==
    IF reasons # <<>> THEN [n \in 1..Len(reasons) |-> _humanize_reason(reasons[n])]
    ELSE IF label_upper = <<"L","O","W">>
    THEN <<<<"N","o"," ","s","t","r","o","n","g"," ","p","h","i","s","h","i","n","g"," ","i","n","d","i","c","a","t","o","r","s"," ","w","e","r","e"," ","d","e","t","e","c","t","e","d","."," ","A","c","t","i","o","n",":"," ","S","t","a","y"," ","a","l","e","r","t"," ","f","o","r"," ","u","n","u","s","u","a","l"," ","r","e","q","u","e","s","t","s"," ","e","v","e","n"," ","w","h","e","n"," ","a"," ","m","e","s","s","a","g","e"," ","l","o","o","k","s"," ","s","a","f","e",".">>>>
    ELSE <<<<"T","h","e"," ","m","e","s","s","a","g","e"," ","w","a","s"," ","f","l","a","g","g","e","d"," ","b","y"," ","t","h","e"," ","s","c","o","r","i","n","g"," ","e","n","g","i","n","e",","," ","b","u","t"," ","s","p","e","c","i","f","i","c"," ","s","i","g","n","a","l","s"," ","c","o","u","l","d"," ","n","o","t"," ","b","e"," ","i","n","t","e","r","p","r","e","t","e","d","."," ","A","c","t","i","o","n",":"," ","T","r","e","a","t"," ","t","h","e"," ","e","m","a","i","l"," ","a","s"," ","s","u","s","p","i","c","i","o","u","s"," ","a","n","d"," ","v","e","r","i","f","y"," ","t","h","r","o","u","g","h"," ","a","n","o","t","h","e","r"," ","c","h","a","n","n","e","l",".">>>>

\* lines 47-54
GeneralActions(label_upper, reasons, url_pairs, attachment_names) ==
    IF label_upper \in {<<"M","E","D","I","U","M">>, <<"H","I","G","H">>}
    THEN _general_actions(label_upper, url_pairs, attachment_names,
             \E n \in 1..Len(reasons) : Contains(Lower(reasons[n]), <<"a","t","t","a","c","h","m","e","n","t">>))
    ELSE <<>>

RECURSIVE AppendNew(_, _)
\* lines 55-57
AppendNew(lines, general_actions) ==
    IF general_actions = <<>> THEN lines
    ELSE IF InSeq(Head(general_actions), lines) THEN AppendNew(lines, Tail(general_actions))
    ELSE AppendNew(Append(lines, Head(general_actions)), Tail(general_actions))

\* lines 44-63, from the locals built before them
ExplanationLines(label_upper, summary, detail_lines, general_actions) ==
    IF /\ label_upper # <<"L","O","W">>
       /\ _collect_action_items(detail_lines, general_actions) # <<>>
    THEN Append(AppendNew(<<summary>> \o detail_lines, general_actions),
                _format_action_summary(_collect_action_items(detail_lines, general_actions), 4))
    ELSE AppendNew(<<summary>> \o detail_lines, general_actions)

\* label None is written <<"<None>">>
LabelUpper(label) == IF label = None THEN <<>> ELSE Upper(label)

build_explanations(label, score, raw_reasons, matched_keywords, suspicious_urls, attachment_list) ==
    ExplanationLines(
        LabelUpper(label),
        _build_summary(LabelUpper(label), score,
                       SelectSeq(matched_keywords, LAMBDA kw : kw # <<>>)),
        DetailLines(raw_reasons, LabelUpper(label)),
        GeneralActions(LabelUpper(label), raw_reasons, suspicious_urls,
                       SelectSeq(attachment_list, LAMBDA att : att # <<>>)))

\* ---------------------------------------------------------------------------
\* The calls of build_explanations: expl holds the arguments of the latest
\* call and the list it returned.
\* ---------------------------------------------------------------------------

\* the longest list of raw reasons
MaxReasons == 2

ExplainLabels == {<<"L","O","W">>, <<"M","E","D","I","U","M">>, <<"H","I","G","H">>, <<"l","o","w">>, <<"S","P","A","M">>}

ExplainScores == {0, 11}

ExplainReasons ==
    {<<"+","3"," ","p","o","i","n","t","s",":"," ","R","e","p","l","y","-","t","o"," ","d","o","m","a","i","n"," ","d","i","f","f","e","r","s"," ","f","r","o","m"," ","F","r","o","m"," ","d","o","m","a","i","n"," ","(","b","a","d",".","c","o","m",")">>,
     <<"+","3"," ","p","o","i","n","t","s",":"," ","F","r","o","m"," ","d","o","m","a","i","n"," ","c","o","n","t","a","i","n","s"," ","I","D","N"," ","o","r"," ","c","o","n","f","u","s","a","b","l","e"," ","c","h","a","r","a","c","t","e","r","s"," ","(","p","u","n","y","c","o","d","e"," ","i","n"," ","x","n","-","-","p","p","l","e","-","4","3","d",".","c","o","m",")">>,
     <<"+","3"," ","p","o","i","n","t","s",":"," ","K","e","y","w","o","r","d"," ","'","u","r","g","e","n","t","'"," ","i","n"," ","e","a","r","l","y"," ","b","o","d","y">>,
     <<"+","4"," ","p","o","i","n","t","s",":"," ","S","u","s","p","i","c","i","o","u","s"," ","U","R","L"," ","h","t","t","p",":","/","/","e","v","i","l",".","t","e","s","t","/","l","o","g","i","n"," ","(","h","i","g","h","-","r","i","s","k"," ","t","l","d",";"," ","l","o","o","k","s"," ","c","r","e","d","e","n","t","i","a","l"," ","h","a","r","v","e","s","t",")">>,
     <<"+","4"," ","p","o","i","n","t","s",":"," ","D","a","n","g","e","r","o","u","s"," ","a","t","t","a","c","h","m","e","n","t"," ","e","x","t","e","n","s","i","o","n"," ","i","n"," ","m","a","l","w","a","r","e",".","e","x","e">>,
     <<"+","4"," ","p","o","i","n","t","s",":"," ","D","a","n","g","e","r","o","u","s"," ","a","t","t","a","c","h","m","e","n","t"," ","e","x","t","e","n","s","i","o","n"," ","i","n"," ","R","e","p","l","y","-","t","o"," ","d","o","m","a","i","n"," ","d","i","f","f","e","r","s",".","e","x","e">>,
     <<"-","4"," ","p","o","i","n","t","s",":"," ","e","x","a","m","p","l","e",".","c","o","m"," ","i","n"," ","w","h","i","t","e","l","i","s","t">>,
     <<"+","1"," ","p","o","i","n","t",":"," ","M","a","t","c","h","e","d"," ","p","h","i","s","h","i","n","g"," ","l","a","n","g","u","a","g","e"," ","(","u","r","g","e","n","t",")">>,
     <<"s","e","n","d","e","r"," ","i","s"," ","u","n","k","n","o","w","n">>}

ExplainUrls ==
    {<<>>,
     <<<<[scheme |-> <<"h","t","t","p">>, hostname |-> <<"e","v","i","l",".","t","e","s","t">>, path |-> <<"/","l","o","g","i","n">>, query |-> <<>>],
         <<<<"h","i","g","h","-","r","i","s","k"," ","t","l","d">>>>>>>>}

ExplainAttachments == {<<>>, <<<<"m","a","l","w","a","r","e",".","e","x","e">>, <<>>>>}

ExplainKeywords == {<<>>, <<<<"u","r","g","e","n","t">>, <<"v","e","r","i","f","y">>, <<"u","r","g","e","n","t">>>>}

\* the arguments of a call
InitExplain ==
    /\ \E label \in ExplainLabels, score \in ExplainScores,
          raw_reasons \in SeqsUpTo(ExplainReasons, MaxReasons),
          matched_keywords \in ExplainKeywords, suspicious_urls \in ExplainUrls,
          attachment_list \in ExplainAttachments :
          expl = [status |-> "called", label |-> label, score |-> score,
                  raw_reasons |-> raw_reasons, matched_keywords |-> matched_keywords,
                  suspicious_urls |-> suspicious_urls, attachments |-> attachment_list,
                  lines |-> <<>>]
    /\ PayloadIdle
    /\ IndexIdle
    /\ ScoreIdle
    /\ LevIdle
    /\ ResponseIdle
    /\ RiskIdle
    /\ ConfIdle
    /\ BatchIdle
    /\ ThreadsIdle
    /\ PosIdle

\* build_explanations runs on the arguments and returns
BuildExplanations ==
    /\ expl.status = "called"
    /\ expl' = [expl EXCEPT
                   !.status = "returned",
                   !.lines = build_explanations(expl.label, expl.score, expl.raw_reasons,
                                                expl.matched_keywords, expl.suspicious_urls,
                                                expl.attachments)]
    /\ UNCHANGED <<risk_call, conf_call, batch>>
    /\ UNCHANGED <<response, threads, kwpos>>
    /\ UNCHANGED <<headers, body_text, urls, attachments, outcome, lev, now, llm_cache,
                   llm_calls, history, heap, ttl_cache, held, probe>>

NextExplain == BuildExplanations

SpecExplain == InitExplain /\ [][NextExplain]_vars

\* ---------------------------------------------------------------------------
\* Claims about build_explanations
\* ---------------------------------------------------------------------------

\* the distinct action clauses of a call, per-finding ones first
ActionClauses(e) ==
    _collect_action_items(
        DetailLines(e.raw_reasons, LabelUpper(e.label)),
        GeneralActions(LabelUpper(e.label), e.raw_reasons, e.suspicious_urls,
                       SelectSeq(e.attachments, LAMBDA att : att # <<>>)))

\* the line is the checklist of the clauses: at most 4 of them in order, and
\* the ellipsis marker exactly when there are more than 4
IsChecklistOf(line, clauses) ==
    /\ Len(Prefix(clauses, 4)) <= 4
    /\ line = <<"A","c","t","i","o","n"," ","c","h","e","c","k","l","i","s","t",":"," ">> \o Join(Prefix(clauses, 4), <<";"," ">>)
              \o (IF Len(clauses) > 4 THEN <<";"," ",".",".",".">> ELSE <<>>) \o <<".">>

SummaryFirst(e) ==
    /\ e.lines # <<>>
    /\ e.lines[1] = _build_summary(LabelUpper(e.label), e.score,
                                   SelectSeq(e.matched_keywords, LAMBDA kw : kw # <<>>))

\* C18: for any label, whenever at least one action clause exists, the last
\* line build_explanations returns is the action checklist of the distinct
\* action clauses in first-seen order, capped at 4 items with the ellipsis
\* marker exactly when there are more; the first line is always the summary.
C18_ChecklistLast ==
    expl.status = "returned" =>
        /\ SummaryFirst(expl)
        /\ ActionClauses(expl) # <<>> =>
              IsChecklistOf(expl.lines[Len(expl.lines)], ActionClauses(expl))

\* what the code does keep: the same with the label LOW left out
ChecklistLastUnlessLow ==
    expl.status = "returned" =>
        /\ SummaryFirst(expl)
        /\ (ActionClauses(expl) # <<>> /\ LabelUpper(expl.label) # <<"L","O","W">>) =>
              IsChecklistOf(expl.lines[Len(expl.lines)], ActionClauses(expl))

\* a call with the label LOW returned, and its lines carry an action clause
C18_Witness ==
    /\ expl.status = "returned"
    /\ LabelUpper(expl.label) = <<"L","O","W">>
    /\ expl.raw_reasons # <<>>
    /\ ActionClauses(expl) # <<>>

\* a call returned whose checklist is cut at 4 items
ChecklistTruncated ==
    /\ expl.status = "returned"
    /\ Len(ActionClauses(expl)) > 4
    /\ IsChecklistOf(expl.lines[Len(expl.lines)], ActionClauses(expl))

\* ---------------------------------------------------------------------------
\* build_explanations: the humanizer of each reason
\* ---------------------------------------------------------------------------

\* the description of a raw reason, as _humanize_reason takes it
DescriptionOf(reason) == Strip(_split_points(reason).description)

\* the line of the humanizer of the kind score_email wrote the reason as (the
\* texts of scoring.py, lines 49-145), the fallback line for a reason of no kind
OwnLine(delta, d) ==
    IF StartsWith(d, <<"R","e","p","l","y","-","t","o"," ","d","o","m","a","i","n"," ","d","i","f","f","e","r","s"," ","f","r","o","m"," ","F","r","o","m"," ","d","o","m","a","i","n"," ","(">>)
    THEN _handle_reply_to_mismatch(delta, d)
    ELSE IF StartsWith(d, <<"R","e","t","u","r","n","-","p","a","t","h"," ","d","o","m","a","i","n"," ","d","i","f","f","e","r","s"," ","f","r","o","m"," ","F","r","o","m"," ","d","o","m","a","i","n"," ","(">>)
    THEN _handle_return_path_mismatch(delta, d)
    ELSE IF StartsWith(d, <<"F","r","o","m"," ","d","o","m","a","i","n"," ","c","o","n","t","a","i","n","s"," ","I","D","N"," ","o","r"," ","c","o","n","f","u","s","a","b","l","e"," ","c","h","a","r","a","c","t","e","r","s"," ","(">>)
    THEN _handle_confusable_domain(delta, d)
    ELSE IF StartsWith(d, <<"F","r","e","e"," ","e","m","a","i","l"," ","p","r","o","v","i","d","e","r"," ","(">>)
    THEN _handle_free_provider_brand(delta, d)
    ELSE IF StartsWith(d, <<"A","n","o","m","a","l","o","u","s"," ","R","e","c","e","i","v","e","d"," ","h","e","a","d","e","r","s"," ","(">>)
    THEN _handle_received_anomaly(delta, d)
    ELSE IF StartsWith(d, <<"M","e","s","s","a","g","e","-","I","D"," ","d","o","m","a","i","n"," ","m","i","s","m","a","t","c","h"," ","(">>)
    THEN _handle_message_id_mismatch(delta, d)
    ELSE IF StartsWith(d, <<"M","a","t","c","h","e","d"," ","p","h","i","s","h","i","n","g"," ","l","a","n","g","u","a","g","e"," ","(">>)
    THEN _handle_keyword_group(delta, d)
    ELSE IF StartsWith(d, <<"K","e","y","w","o","r","d"," ","'">>)
    THEN _handle_single_keyword(delta, d)
    ELSE IF StartsWith(d, <<"S","u","s","p","i","c","i","o","u","s"," ","U","R","L"," ">>)
    THEN _handle_suspicious_url(delta, d)
    ELSE IF StartsWith(d, <<"D","a","n","g","e","r","o","u","s"," ","a","t","t","a","c","h","m","e","n","t"," ","e","x","t","e","n","s","i","o","n"," ","i","n"," ">>)
    THEN _handle_dangerous_attachment(delta, d)
    ELSE IF StartsWith(d, <<"S","u","s","p","i","c","i","o","u","s"," ","a","r","c","h","i","v","e"," ","a","t","t","a","c","h","m","e","n","t"," ">>)
    THEN _handle_archive_attachment(delta, d)
    ELSE IF EndsWith(d, <<" ","i","n"," ","w","h","i","t","e","l","i","s","t">>)
    THEN _handle_whitelist_hit(delta, d)
    ELSE _compose_line(delta, <<"I","n","d","i","c","a","t","o","r",":"," ">> \o d,
             <<"V","e","r","i","f","y"," ","t","h","e"," ","m","e","s","s","a","g","e"," ","w","i","t","h"," ","t","h","e"," ","s","e","n","d","e","r"," ","v","i","a"," ","a"," ","t","r","u","s","t","e","d"," ","c","h","a","n","n","e","l"," ","b","e","f","o","r","e"," ","t","a","k","i","n","g"," ","a","c","t","i","o","n",".">>)

\* the detail line build_explanations returned for the n-th raw reason
DetailLineOf(n) == expl.lines[n + 1]

HumanizedCall == expl.status = "returned" /\ expl.raw_reasons # <<>>

\* C28: build_explanations humanizes every raw reason with the humanizer of the
\* reason's own kind, whatever text of the email the reason embeds, a reason of
\* no known kind with the 'Indicator:' fallback, and every such line carries an
\* 'Action:' clause.
C28_OwnHumanizer ==
    HumanizedCall =>
        \A n \in 1..Len(expl.raw_reasons) :
            /\ DetailLineOf(n) = OwnLine(_split_points(expl.raw_reasons[n]).delta,
                                         DescriptionOf(expl.raw_reasons[n]))
            /\ Contains(DetailLineOf(n), <<" ","A","c","t","i","o","n",":"," ">>)

\* a dangerous-attachment reason whose file name holds the needle of the
\* Reply-To humanizer came back as a Reply-To line
C28_Witness ==
    /\ HumanizedCall
    /\ \E n \in 1..Len(expl.raw_reasons) :
          /\ StartsWith(DescriptionOf(expl.raw_reasons[n]), <<"D","a","n","g","e","r","o","u","s"," ","a","t","t","a","c","h","m","e","n","t"," ","e","x","t","e","n","s","i","o","n"," ","i","n"," ">>)
          /\ Contains(DetailLineOf(n), <<"T","h","e"," ","r","e","p","l","y","-","t","o"," ","a","d","d","r","e","s","s"," ","r","o","u","t","e","s"," ","r","e","s","p","o","n","s","e","s"," ","t","o">>)

\* whether a description is one the code sends to another kind's humanizer: it
\* is the keyword-group text of scoring.py, or embeds the Reply-To needle
Misrouted(d) ==
    \/ StartsWith(d, <<"M","a","t","c","h","e","d"," ","p","h","i","s","h","i","n","g"," ","l","a","n","g","u","a","g","e"," ","(">>)
    \/ /\ Contains(d, <<"R","e","p","l","y","-","t","o"," ","d","o","m","a","i","n"," ","d","i","f","f","e","r","s">>)
       /\ ~StartsWith(d, <<"R","e","p","l","y","-","t","o"," ","d","o","m","a","i","n"," ","d","i","f","f","e","r","s">>)

\* every reason that is not misrouted gets the humanizer of its own kind, and
\* every detail line carries an 'Action:' clause
OwnHumanizerUnlessMisrouted ==
    HumanizedCall =>
        \A n \in 1..Len(expl.raw_reasons) :
            /\ ~Misrouted(DescriptionOf(expl.raw_reasons[n])) =>
                   DetailLineOf(n) = OwnLine(_split_points(expl.raw_reasons[n]).delta,
                                             DescriptionOf(expl.raw_reasons[n]))
            /\ Contains(DetailLineOf(n), <<" ","A","c","t","i","o","n",":"," ">>)

\* ---------------------------------------------------------------------------
\* The calls of score_keyword_positions: kwpos holds the arguments of a call
\* and, once it returned, its result.
\* ---------------------------------------------------------------------------

\* the longest keyword list of a call
MaxKeywords == 2

PositionSubjects == {None, <<>>, <<"U","R","G","E","N","T",":"," ","l","o","g","i","n"," ","r","e","q","u","i","r","e","d">>}

PositionBodies ==
    {<<>>,
     <<"P","l","e","a","s","e"," ","L","O","G","I","N"," ","t","o"," ","v","e","r","i","f","y",".">>,
     Repeat("x", EARLY_BODY_WINDOW - 3) \o <<"l","o","g","i","n">>,
     Repeat("x", EARLY_BODY_WINDOW) \o <<" ","v","e","r","i","f","y"," ","a","n","d"," ","l","o","g","i","n">>,
     <<"l","o","g","i","n"," ">> \o Repeat("x", EARLY_BODY_WINDOW) \o <<" ","l","o","g","i","n">>}

PositionKeywords == {<<"l","o","g","i","n">>, <<"L","O","G","I","N">>, <<"U","r","g","e","n","t">>, <<"v","e","r","i","f","y">>, <<>>}

InitPosition ==
    /\ \E subject \in PositionSubjects, body \in PositionBodies,
          keywords \in SeqsUpTo(PositionKeywords, MaxKeywords) :
          kwpos = [status |-> "called", subject |-> subject, body |-> body,
                   keywords |-> keywords,
                   result |-> [total_points |-> 0, matched |-> <<>>, hits |-> <<>>]]
    /\ ExplIdle
    /\ PayloadIdle
    /\ IndexIdle
    /\ ScoreIdle
    /\ LevIdle
    /\ ResponseIdle
    /\ RiskIdle
    /\ ConfIdle
    /\ BatchIdle
    /\ ThreadsIdle

\* what the caller gets: (total_points, matched, hits)
PositionResult(acc) == [total_points |-> acc.total_points, matched |-> acc.matched, hits |-> acc.hits]

\* score_keyword_positions runs with the default early_body_window and returns
ScoreKeywordPositions ==
    /\ kwpos.status = "called"
    /\ kwpos' = [kwpos EXCEPT
                    !.status = "returned",
                    !.result = PositionResult(score_keyword_positions(kwpos.subject, kwpos.body,
                                            kwpos.keywords, EARLY_BODY_WINDOW))]
    /\ UNCHANGED <<risk_call, conf_call, batch>>
    /\ UNCHANGED <<response, threads, expl>>
    /\ UNCHANGED <<headers, body_text, urls, attachments, outcome, lev, now, llm_cache,
                   llm_calls, history, heap, ttl_cache, held, probe>>

NextPosition == ScoreKeywordPositions

SpecPosition == InitPosition /\ [][NextPosition]_vars

\* ---------------------------------------------------------------------------
\* Claims about score_keyword_positions
\* ---------------------------------------------------------------------------

\* the text in lower case, None read as the empty text
Lowered(text) == IF text = None THEN <<>> ELSE Lower(text)

\* the keyword occurs in the subject, whatever the case
InSubject(c, kw) == Contains(Lowered(c.subject), Lower(kw))

\* sub occurs in text at an index from first to last
OccursBetween(text, sub, first, last) ==
    \E i \in first..last : OccursAt(text, sub, i)

\* the keyword occurs within the first 400 characters of the body
InEarlyBody(c, kw) ==
    OccursBetween(Lowered(c.body), Lower(kw), 1, EARLY_BODY_WINDOW - Len(kw) + 1)

\* the keyword occurs anywhere in the body
InBody(c, kw) == Contains(Lowered(c.body), Lower(kw))

\* the keyword occurs in the body after its first 400 characters
InLateBody(c, kw) ==
    OccursBetween(Lowered(c.body), Lower(kw), EARLY_BODY_WINDOW + 1, Len(c.body))

\* the points the keyword is due
PointsDue(c, kw) ==
    IF InSubject(c, kw) THEN 3
    ELSE IF InEarlyBody(c, kw) THEN 2
    ELSE IF InBody(c, kw) THEN 1
    ELSE 0

\* the keywords of the call that are not empty
RealKeywords(c) == SelectSeq(c.keywords, LAMBDA kw : kw # <<>>)

\* C19: each keyword is awarded 3 points when it occurs in the subject, else 2
\* when it occurs within the first 400 characters of the body, else 1 when it
\* occurs anywhere later in the body, and 0 only when it occurs in neither; the
\* total returned is the sum of the points awarded.
C19_PointsByLocation ==
    kwpos.status = "returned" =>
        /\ kwpos.result.total_points =
              SumSeq([n \in 1..Len(RealKeywords(kwpos)) |->
                         PointsDue(kwpos, RealKeywords(kwpos)[n])])
        /\ \A n \in 1..Len(RealKeywords(kwpos)) :
              PointsDue(kwpos, RealKeywords(kwpos)[n]) > 0 =>
                  \E h \in 1..Len(kwpos.result.hits) :
                      /\ kwpos.result.hits[h].keyword = RealKeywords(kwpos)[n]
                      /\ kwpos.result.hits[h].points = PointsDue(kwpos, RealKeywords(kwpos)[n])

\* the keyword lies across the end of the first 400 characters and nowhere else
StraddlesOnly(c, kw) ==
    /\ kw # <<>>
    /\ InBody(c, kw)
    /\ ~InSubject(c, kw)
    /\ ~InEarlyBody(c, kw)
    /\ ~InLateBody(c, kw)

\* a call returned for a keyword found only across the 400-character boundary
C19_Witness ==
    /\ kwpos.status = "returned"
    /\ \E n \in 1..Len(kwpos.keywords) : StraddlesOnly(kwpos, kwpos.keywords[n])
    /\ kwpos.result.total_points = 0

\* what the code does keep: the same when no keyword lies only across the boundary
PointsUnlessStraddling ==
    (/\ kwpos.status = "returned"
     /\ \A n \in 1..Len(kwpos.keywords) : ~StraddlesOnly(kwpos, kwpos.keywords[n])) =>
        kwpos.result.total_points =
            SumSeq([n \in 1..Len(RealKeywords(kwpos)) |->
                       PointsDue(kwpos, RealKeywords(kwpos)[n])])

\* the locations the keyword is found in
FoundIn(c, kw) ==
    {loc \in {"subject", "early_body", "body"} :
        \/ loc = "subject" /\ InSubject(c, kw)
        \/ loc = "early_body" /\ InEarlyBody(c, kw)
        \/ loc = "body" /\ InLateBody(c, kw)}

\* no keyword is in the matched list twice
MatchedOnce(matched) ==
    \A i, j \in 1..Len(matched) : Lower(matched[i]) = Lower(matched[j]) => i = j

\* C20: the result holds one hit record for every location (subject, early
\* body, late body) a keyword is found in, and the keyword is in the matched
\* list at most once.
C20_HitPerLocation ==
    kwpos.status = "returned" =>
        /\ MatchedOnce(kwpos.result.matched)
        /\ \A n \in 1..Len(RealKeywords(kwpos)) :
              \A loc \in FoundIn(kwpos, RealKeywords(kwpos)[n]) :
                  \E h \in 1..Len(kwpos.result.hits) :
                      /\ kwpos.result.hits[h].keyword = RealKeywords(kwpos)[n]
                      /\ kwpos.result.hits[h].location = loc

\* a call returned for a keyword found in two locations
C20_Witness ==
    /\ kwpos.status = "returned"
    /\ \E n \in 1..Len(kwpos.keywords) :
          /\ kwpos.keywords[n] # <<>>
          /\ Cardinality(FoundIn(kwpos, kwpos.keywords[n])) >= 2
          /\ Cardinality({h \in 1..Len(kwpos.result.hits) :
                             kwpos.result.hits[h].keyword = kwpos.keywords[n]}) = 1

\* what the code does keep: every keyword found has the hit of its first location
HitOfFirstLocation ==
    kwpos.status = "returned" =>
        /\ MatchedOnce(kwpos.result.matched)
        /\ \A h \in 1..Len(kwpos.result.hits) :
              kwpos.result.hits[h].location \in FoundIn(kwpos, kwpos.result.hits[h].keyword)

\* the keyword at index n of the call has a hit: it is found in the subject, in
\* the early span or in the late span
HasHit(c, n) ==
    /\ c.keywords[n] # <<>>
    /\ FoundIn(c, c.keywords[n]) # {}

\* the indices of the keywords that enter the matched list: those with a hit
\* whose case-folded form has no hit at an earlier index
FirstDiscoveries(c) ==
    {n \in 1..Len(c.keywords) :
        /\ HasHit(c, n)
        /\ \A k \in 1..(n - 1) :
              HasHit(c, k) => Lower(c.keywords[k]) # Lower(c.keywords[n])}

\* the keywords at the indices given, in index order
RECURSIVE KeywordsAt(_, _, _)
KeywordsAt(keywords, indices, n) ==
    IF n > Len(keywords) THEN <<>>
    ELSE IF n \in indices THEN <<keywords[n]>> \o KeywordsAt(keywords, indices, n + 1)
    ELSE KeywordsAt(keywords, indices, n + 1)

\* C21: for any keyword list, repeated and case-variant keywords included, the
\* matched list score_keyword_positions returns holds each case-folded keyword
\* at most once, in the order of first discovery along the keyword list.
C21_MatchedUniqueInOrder ==
    kwpos.status = "returned" =>
        /\ MatchedOnce(kwpos.result.matched)
        /\ kwpos.result.matched = KeywordsAt(kwpos.keywords, FirstDiscoveries(kwpos), 1)

\* a call returned whose keyword list holds two case variants of one keyword,
\* both with a hit
C21_Witness ==
    /\ kwpos.status = "returned"
    /\ \E i, j \in 1..Len(kwpos.keywords) :
          /\ i < j
          /\ kwpos.keywords[i] # kwpos.keywords[j]
          /\ Lower(kwpos.keywords[i]) = Lower(kwpos.keywords[j])
          /\ HasHit(kwpos, i)
          /\ HasHit(kwpos, j)
    /\ Len(kwpos.result.hits) = 2
    /\ Len(kwpos.result.matched) = 1

\* ---------------------------------------------------------------------------
\* The calls of _domain_risk: risk_call holds the arguments of a call and, once
\* it returned, its result.
\* ---------------------------------------------------------------------------

RiskHosts ==
    {None, <<>>, <<"e","x","a","m","p","l","e",".","c","o","m">>, <<"m","a","i","l",".","e","x","a","m","p","l","e",".","c","o","m">>, <<"E","X","A","M","P","L","E",".","c","o","m">>, <<"e","v","i","l","e","x","a","m","p","l","e",".","c","o","m">>,
     <<"o","t","h","e","r",".","o","r","g">>, <<"h","o","s","t","1","2","3",".","n","e","t">>, <<"m","y","-","s","e","c","u","r","e","-","l","o","g","i","n",".","n","e","t">>, <<"x","n","-","-","p","p","l","e","-","4","3","d",".","c","o","m">>,
     <<"a",".","b",".","c",".","o","t","h","e","r",".","o","r","g">>, <<"c","d","n",".","g","i","t","h","u","b",".","c","o","m">>, <<"e","v","i","l",".","c","o",".","u","k">>}

RiskSenders ==
    {None, <<>>, <<"e","x","a","m","p","l","e",".","c","o","m">>, <<"m","a","i","l",".","e","x","a","m","p","l","e",".","c","o","m">>, <<"o","t","h","e","r",".","c","o",".","u","k">>}

InitRisk ==
    /\ \E host \in RiskHosts, sender_domain \in RiskSenders :
          risk_call = [status |-> "called", host |-> host, sender_domain |-> sender_domain,
                       result |-> [risk |-> 0, reason |-> None]]
    /\ ConfIdle
    /\ BatchIdle
    /\ ExplIdle
    /\ PosIdle
    /\ PayloadIdle
    /\ IndexIdle
    /\ ScoreIdle
    /\ LevIdle
    /\ ResponseIdle
    /\ ThreadsIdle

\* _domain_risk runs on the arguments and returns
DomainRisk ==
    /\ risk_call.status = "called"
    /\ risk_call' = [risk_call EXCEPT
                        !.status = "returned",
                        !.result = _domain_risk(risk_call.host, risk_call.sender_domain)]
    /\ UNCHANGED <<conf_call, batch>>
    /\ UNCHANGED <<response, threads, kwpos, expl>>
    /\ UNCHANGED <<headers, body_text, urls, attachments, outcome, lev, now, llm_cache,
                   llm_calls, history, heap, ttl_cache, held, probe>>

NextRisk == DomainRisk

SpecRisk == InitRisk /\ [][NextRisk]_vars

\* ---------------------------------------------------------------------------
\* Claims about _domain_risk
\* ---------------------------------------------------------------------------

\* the registrable domain of a host, the host itself when it has none
BaseOf(host) ==
    IF Truthy(registrable_domain(Lower(host))) THEN registrable_domain(Lower(host))
    ELSE Lower(host)

\* the host is the domain or one of its subdomains
AtOrUnder(host, domain) ==
    \/ Lower(host) = Lower(domain)
    \/ EndsWith(Lower(host), <<".">> \o Lower(domain))

\* the host is the sender's domain, one of its subdomains, or a host of the
\* sender's registrable domain
OfSender(host, sender_domain) ==
    /\ Truthy(sender_domain)
    /\ \/ AtOrUnder(host, sender_domain)
       \/ AtOrUnder(host, BaseOf(sender_domain))

\* a run of 3 digits, 2 hyphens, a punycode prefix or 3 dots
SuspiciousStructure(host) ==
    \/ HasDigitRun(Lower(host))
    \/ CountChar(host, "-") >= 2
    \/ StartsWith(Lower(host), <<"x","n","-","-">>)
    \/ CountChar(host, ".") >= 3

\* C22: the domain risk of a host is 0 when its registrable domain is in the
\* trusted-base set or the host equals or is a subdomain of the sender's
\* domain; otherwise 2 when the host has a run of 3 digits, 2 hyphens, a
\* punycode prefix or 3 dots; otherwise 1 when it differs from the sender domain.
C22_DomainRisk ==
    (risk_call.status = "returned" /\ Truthy(risk_call.host)) =>
        IF BaseOf(risk_call.host) \in _TRUSTED_BASES
           \/ OfSender(risk_call.host, risk_call.sender_domain)
        THEN risk_call.result.risk = 0
        ELSE IF SuspiciousStructure(risk_call.host) THEN risk_call.result.risk = 2
        ELSE Truthy(risk_call.sender_domain) => risk_call.result.risk = 1

\* a call returned for a host that ends with the sender's domain without being
\* under it
C22_Witness ==
    /\ risk_call.status = "returned"
    /\ Truthy(risk_call.host)
    /\ Truthy(risk_call.sender_domain)
    /\ EndsWith(Lower(risk_call.host), BaseOf(risk_call.sender_domain))
    /\ ~OfSender(risk_call.host, risk_call.sender_domain)
    /\ BaseOf(risk_call.host) \notin _TRUSTED_BASES
    /\ risk_call.result.risk = 0

\* what the code does keep: the same when the host does not merely end with the
\* sender's registrable domain
DomainRiskUnlessSuffix ==
    (/\ risk_call.status = "returned"
     /\ Truthy(risk_call.host)
     /\ ~(/\ Truthy(risk_call.sender_domain)
          /\ EndsWith(Lower(risk_call.host), BaseOf(risk_call.sender_domain))
          /\ ~OfSender(risk_call.host, risk_call.sender_domain))) =>
        IF BaseOf(risk_call.host) \in _TRUSTED_BASES
           \/ OfSender(risk_call.host, risk_call.sender_domain)
        THEN risk_call.result.risk = 0
        ELSE IF SuspiciousStructure(risk_call.host) THEN risk_call.result.risk = 2
        ELSE Truthy(risk_call.sender_domain) => risk_call.result.risk = 1

(***************************************************************************)
(* backend/core/confusables.py                                             *)
(***************************************************************************)
\* The code points beyond ASCII that the texts of the model are written in:
\* CYRILLIC SMALL A, LATIN SMALL/CAPITAL E WITH ACUTE, ZERO WIDTH SPACE, ZERO
\* WIDTH NO-BREAK SPACE, the ideograph U+65E5, FULLWIDTH LATIN SMALL A and
\* COMBINING ACUTE ACCENT
UnicodeChars ==
    {"U+0430", "U+00E9", "U+00C9", "U+200B", "U+FEFF", "U+65E5", "U+FF41", "U+0301"}

\* ord(char) < 128, char.isascii()
IsAscii(c) == c \notin UnicodeChars

\* the members of ZERO_WIDTH_CHARS among the code points of the model
ZERO_WIDTH_CHARS == {"U+200B", "U+FEFF"}

\* the entries of CONFUSABLE_MAP whose key is a code point of the model
CONFUSABLE_MAP == [c \in {"U+0430"} |-> <<"a">>]

\* ''.join(pieces)
RECURSIVE JoinPieces(_)
JoinPieces(pieces) ==
    IF pieces = <<>> THEN <<>> ELSE Head(pieces) \o JoinPieces(Tail(pieces))

\* str.casefold()
Casefold(s) == [i \in 1..Len(s) |-> IF s[i] = "U+00C9" THEN "U+00E9" ELSE LowerChar(s[i])]

\* unicodedata.normalize('NFKD', text)
NFKD(text) ==
    JoinPieces([i \in 1..Len(text) |->
                   IF text[i] = "U+00E9" THEN <<"e", "U+0301">>
                   ELSE IF text[i] = "U+00C9" THEN <<"E", "U+0301">>
                   ELSE IF text[i] = "U+FF41" THEN <<"a">>
                   ELSE <<text[i]>>])

\* the canonical composition of a decomposed text
RECURSIVE Compose(_)
Compose(text) ==
    IF text = <<>> THEN <<>>
    ELSE IF Len(text) >= 2 /\ text[1] = "e" /\ text[2] = "U+0301"
         THEN <<"U+00E9">> \o Compose(SubSeq(text, 3, Len(text)))
    ELSE IF Len(text) >= 2 /\ text[1] = "E" /\ text[2] = "U+0301"
         THEN <<"U+00C9">> \o Compose(SubSeq(text, 3, Len(text)))
    ELSE <<text[1]>> \o Compose(Tail(text))

\* unicodedata.normalize('NFKC', text)
NFKC(text) == Compose(NFKD(text))

\* unicodedata.combining(char) != 0
combining(c) == c = "U+0301"

\* ''.join(char for char in text if char.isascii())
AsciiOnly(text) == SelectSeq(text, IsAscii)

NotZeroWidth(c) == c \notin ZERO_WIDTH_CHARS

contains_zero_width(text) ==
    IF ~Truthy(text) THEN FALSE
    ELSE \E i \in 1..Len(text) : text[i] \in ZERO_WIDTH_CHARS

normalize_unicode(text) ==
    IF ~Truthy(text) THEN <<>>
    ELSE Casefold(SelectSeq(NFKC(text), NotZeroWidth))

\* what one character of the decomposed text appends to pieces
SkeletonPiece(c) ==
    IF combining(c) \/ c \in ZERO_WIDTH_CHARS THEN <<>>
    ELSE IF c \in DOMAIN CONFUSABLE_MAP THEN CONFUSABLE_MAP[c]
    ELSE IF IsAscii(c) THEN <<c>>
    ELSE AsciiOnly(NFKD(<<c>>))

SkeletonOf(decomposed) ==
    AsciiOnly(JoinPieces([i \in 1..Len(decomposed) |-> SkeletonPiece(decomposed[i])]))

unicode_skeleton(text) ==
    IF ~Truthy(text) THEN <<>>
    ELSE SkeletonOf(NFKD(normalize_unicode(text)))

\* (reference or '').strip()
RefOf(reference) == IF Truthy(reference) THEN Strip(reference) ELSE <<>>

\* the body of the loop over reference_domains for one reference: whether it returns
ReferenceMatches(reference, lower_candidate, skeleton) ==
    /\ RefOf(reference) # <<>>
    /\ Casefold(RefOf(reference)) # lower_candidate
    /\ skeleton # <<>>
    /\ skeleton = unicode_skeleton(Casefold(RefOf(reference)))

\* the loop over reference_domains: the reason it returns, or None when it ends
RECURSIVE ReferenceLoop(_, _, _)
ReferenceLoop(reference_domains, lower_candidate, skeleton) ==
    IF reference_domains = <<>> THEN None
    ELSE IF ReferenceMatches(Head(reference_domains), lower_candidate, skeleton)
         THEN <<"c","o","n","f","u","s","a","b","l","e"," ","m","a","t","c","h"," ","f","o","r"," ">> \o Casefold(RefOf(Head(reference_domains)))
    ELSE ReferenceLoop(Tail(reference_domains), lower_candidate, skeleton)

\* detect_confusable from lower_candidate on
DetectLowered(lower_candidate, skeleton, ascii_fold, reference_domains) ==
    IF Contains(lower_candidate, <<"x","n","-","-">>) THEN <<"p","u","n","y","c","o","d","e"," ","l","a","b","e","l">>
    ELSE IF contains_zero_width(lower_candidate) THEN <<"z","e","r","o","-","w","i","d","t","h"," ","c","h","a","r","a","c","t","e","r","s">>
    ELSE IF Truthy(reference_domains)
            /\ ReferenceLoop(reference_domains, lower_candidate, skeleton) # None
         THEN ReferenceLoop(reference_domains, lower_candidate, skeleton)
    ELSE IF \E i \in 1..Len(lower_candidate) : ~IsAscii(lower_candidate[i])
         THEN IF skeleton # <<>> /\ skeleton # ascii_fold
              THEN <<"c","o","n","f","u","s","a","b","l","e"," ","s","k","e","l","e","t","o","n"," ">> \o skeleton
              ELSE <<"n","o","n","-","a","s","c","i","i"," ","c","h","a","r","a","c","t","e","r","s">>
    ELSE None

\* the reason, or None
detect_confusable(domain, reference_domains) ==
    IF ~Truthy(domain) THEN None
    ELSE IF Strip(domain) = <<>> THEN None
    ELSE DetectLowered(Casefold(Strip(domain)),
                       unicode_skeleton(Casefold(Strip(domain))),
                       AsciiOnly(normalize_unicode(Casefold(Strip(domain)))),
                       reference_domains)

\* ---------------------------------------------------------------------------
\* The calls of detect_confusable: conf_call holds the arguments of a call and,
\* once it returned, its result.
\* ---------------------------------------------------------------------------

ConfusableDomains ==
    {None, <<>>, <<" ">>, <<"e","x","a","m","p","l","e",".","c","o","m">>, <<"a","p","p","l","e",".","c","o","m">>, <<" ","a","p","p","l","e",".","c","o","m"," ">>, <<"A","P","P","L","E",".","c","o","m">>,
     <<"x","n","-","-","p","p","l","e","-","4","3","d",".","c","o","m">>, <<"X","N","-","-","U+200B","a",".","c","o","m">>, <<"p","a","y","U+200B","p","a","l",".","c","o","m">>,
     <<"U+0430","p","p","l","e",".","c","o","m">>, <<"U+0430","U+FEFF","p","p","l","e",".","c","o","m">>, <<"U+FF41","p","p","l","e",".","c","o","m">>,
     <<"U+65E5",".","j","p">>, <<"U+65E5">>, <<"c","a","f","U+00E9",".","c","o","m">>, <<"C","A","F","U+00C9",".","c","o","m">>,
     <<"c","a","f","e","U+0301",".","c","o","m">>}

ConfusableReferences ==
    {None, <<>>, <<<<"a","p","p","l","e",".","c","o","m">>>>, <<None, <<" ">>, <<"A","p","p","l","e",".","c","o","m">>>>,
     <<<<"o","t","h","e","r",".","o","r","g">>, <<"c","a","f","e",".","c","o","m">>, <<"a","p","p","l","e",".","c","o","m">>>>, <<<<"U+0430","p","p","l","e",".","c","o","m">>>>,
     <<<<"U+FF41","p","p","l","e",".","c","o","m">>, <<"a","p","p","l","e",".","c","o","m">>>>}

InitConfusable ==
    /\ \E domain \in ConfusableDomains, reference_domains \in ConfusableReferences :
          conf_call = [status |-> "called", domain |-> domain,
                       reference_domains |-> reference_domains, result |-> None]
    /\ RiskIdle
    /\ BatchIdle
    /\ ExplIdle
    /\ PosIdle
    /\ PayloadIdle
    /\ IndexIdle
    /\ ScoreIdle
    /\ LevIdle
    /\ ResponseIdle
    /\ ThreadsIdle

\* detect_confusable runs on the arguments and returns
DetectConfusable ==
    /\ conf_call.status = "called"
    /\ conf_call' = [conf_call EXCEPT
                        !.status = "returned",
                        !.result = detect_confusable(conf_call.domain, conf_call.reference_domains)]
    /\ UNCHANGED <<risk_call, batch>>
    /\ UNCHANGED <<response, threads, kwpos, expl>>
    /\ UNCHANGED <<headers, body_text, urls, attachments, outcome, lev, now, llm_cache,
                   llm_calls, history, heap, ttl_cache, held, probe>>

NextConfusable == DetectConfusable

SpecConfusable == InitConfusable /\ [][NextConfusable]_vars

\* ---------------------------------------------------------------------------
\* detect_confusable: the order of its checks
\* ---------------------------------------------------------------------------

\* the candidate the checks run on; <<>> for a domain that is None, empty or blank
CandidateOf(domain) == IF Truthy(domain) THEN Casefold(Strip(domain)) ELSE <<>>

IsPunycode(c) == Contains(CandidateOf(c.domain), <<"x","n","-","-">>)

HasZeroWidth(c) == \E i \in 1..Len(CandidateOf(c.domain)) : CandidateOf(c.domain)[i] \in ZERO_WIDTH_CHARS

\* the references whose skeleton is the non-empty skeleton of the candidate and
\* which differ from the candidate itself
MatchingReferences(c) ==
    IF c.reference_domains = None THEN {}
    ELSE {i \in 1..Len(c.reference_domains) :
             /\ RefOf(c.reference_domains[i]) # <<>>
             /\ Casefold(RefOf(c.reference_domains[i])) # CandidateOf(c.domain)
             /\ unicode_skeleton(CandidateOf(c.domain)) # <<>>
             /\ unicode_skeleton(Casefold(RefOf(c.reference_domains[i])))
                   = unicode_skeleton(CandidateOf(c.domain))}

HasNonAscii(c) == \E i \in 1..Len(CandidateOf(c.domain)) : ~IsAscii(CandidateOf(c.domain)[i])

SkeletonDiffers(c) ==
    /\ HasNonAscii(c)
    /\ unicode_skeleton(CandidateOf(c.domain)) # <<>>
    /\ unicode_skeleton(CandidateOf(c.domain)) # AsciiOnly(normalize_unicode(CandidateOf(c.domain)))

FirstReference(c) == CHOOSE i \in MatchingReferences(c) : \A j \in MatchingReferences(c) : i <= j

\* the reason of the first of the four checks that matches, None when none does
FirstOfFour(c) ==
    IF IsPunycode(c) THEN <<"p","u","n","y","c","o","d","e"," ","l","a","b","e","l">>
    ELSE IF HasZeroWidth(c) THEN <<"z","e","r","o","-","w","i","d","t","h"," ","c","h","a","r","a","c","t","e","r","s">>
    ELSE IF MatchingReferences(c) # {}
         THEN <<"c","o","n","f","u","s","a","b","l","e"," ","m","a","t","c","h"," ","f","o","r"," ">> \o Casefold(RefOf(c.reference_domains[FirstReference(c)]))
    ELSE IF SkeletonDiffers(c) THEN <<"c","o","n","f","u","s","a","b","l","e"," ","s","k","e","l","e","t","o","n"," ">> \o unicode_skeleton(CandidateOf(c.domain))
    ELSE None

\* C24: detect_confusable returns, for every domain and every list of references,
\* the reason of the first that matches of: punycode label, zero-width
\* characters, skeleton of a reference that differs from the input, non-ASCII
\* domain whose skeleton differs from its ASCII fold; it returns None whenever
\* none of the four matches.
C24_FirstOfFourChecks ==
    conf_call.status = "returned" => conf_call.result = FirstOfFour(conf_call)

\* a call returned for a non-ASCII domain that none of the four checks matches
C24_Witness ==
    /\ conf_call.status = "returned"
    /\ HasNonAscii(conf_call)
    /\ FirstOfFour(conf_call) = None
    /\ conf_call.result = <<"n","o","n","-","a","s","c","i","i"," ","c","h","a","r","a","c","t","e","r","s">>

\* the same order holds when a non-ASCII domain that passes the four checks
\* gets the reason 'non-ascii characters'
FirstOfFourOrNonAscii ==
    conf_call.status = "returned" =>
        conf_call.result = IF FirstOfFour(conf_call) = None /\ HasNonAscii(conf_call)
                           THEN <<"n","o","n","-","a","s","c","i","i"," ","c","h","a","r","a","c","t","e","r","s">>
                           ELSE FirstOfFour(conf_call)

(***************************************************************************)
(* backend/core/llm_utils.py: analyze_payloads on batches longer than      *)
(* _MAX_BATCH_SIZE.  The emails of a batch are copies of two emails, so    *)
(* that the cache never holds more than two keys.                          *)
(***************************************************************************)
MaxBatchPayloads == 6

BatchContents == {"invoice", "meeting"}

\* the payloads of a batch: the n-th has the id "e<n>"
BatchPayloads(contents) ==
    [i \in 1..Len(contents) |-> [id |-> <<"e", i>>, content |-> contents[i]]]

\* the batches an earlier call at time 0 may have analysed
WarmUps == {<<>>, <<"invoice">>, <<"meeting">>, <<"invoice", "meeting">>}

CleanAnalysis ==
    [probability |-> 10, indicators |-> <<"Urgent request">>, reasoning |-> "resembles phishing"]

\* how the call for a chunk can fail
FailureKinds == {"missing", "api_error", "not_json"}

\* the reply of the classifier: an analysis for every id but the one of failing
\* (0 for none), for which it fails in the way of kind
BatchReply(payloads, failing, kind) ==
    [id \in {payloads[i].id : i \in 1..Len(payloads)} |->
        IF failing # 0 /\ id = payloads[failing].id
        THEN [kind |-> kind]
        ELSE [kind |-> "analysis", raw |-> CleanAnalysis]]

\* what an earlier call at time 0 left
WarmedUp(warm) ==
    analyze_payloads(<<>>, <<>>, SUPPORTED_LLM_MODELS[1], BatchPayloads(warm),
                     BatchReply(BatchPayloads(warm), 0, "missing"), 0, FALSE)

InitBatch ==
    /\ \E n \in 1..MaxBatchPayloads :
       \E contents \in [1..n -> BatchContents], failing \in 0..n, kind \in FailureKinds,
          warm \in WarmUps :
          /\ failing = 0 => kind = "missing"
          /\ ttl_cache = WarmedUp(warm).cache
          /\ heap = WarmedUp(warm).heap
          /\ batch = [status |-> "called", payloads |-> BatchPayloads(contents),
                      reply |-> BatchReply(BatchPayloads(contents), failing, kind),
                      cache_before |-> <<>>, sent |-> <<>>, results |-> <<>>,
                      resent |-> <<>>]
    /\ now \in {0, _CACHE_TTL_SECONDS + _CACHE_TTL_SECONDS \div 2}
    /\ llm_cache = <<>>
    /\ llm_calls = 0
    /\ history = <<>>
    /\ held = <<>>
    /\ probe = <<>>
    /\ ScoreIdle
    /\ LevIdle
    /\ ResponseIdle
    /\ RiskIdle
    /\ ConfIdle
    /\ ThreadsIdle
    /\ PosIdle
    /\ ExplIdle

\* analyze_payloads runs on the batch; batch keeps the cache it found, the chunks
\* it passed to the classifier and the results it returned
AnalyzeBatch ==
    /\ batch.status = "called"
    /\ LET done == analyze_payloads(ttl_cache, heap, SUPPORTED_LLM_MODELS[1], batch.payloads,
                                    batch.reply, now, FALSE)
       IN  /\ ttl_cache' = done.cache
           /\ heap' = done.heap
           /\ batch' = [batch EXCEPT
                           !.status = IF done.raised THEN "raised" ELSE "returned",
                           !.cache_before = ttl_cache,
                           !.sent = done.sent,
                           !.results = IF done.raised THEN <<>>
                                       ELSE [n \in 1..Len(done.results) |->
                                                [id |-> done.results[n].id,
                                                 served |-> done.results[n].served]]]
    /\ UNCHANGED <<risk_call, conf_call>>
    /\ UNCHANGED <<response, threads, kwpos, expl>>
    /\ UNCHANGED <<headers, body_text, urls, attachments, outcome, lev, now, llm_cache,
                   llm_calls, history, held, probe>>

\* the caller of a call that raised makes the identical request again, and this
\* time every call of the classifier succeeds; batch keeps the chunks it sends
RetryBatch ==
    /\ batch.status = "raised"
    /\ LET done == analyze_payloads(ttl_cache, heap, SUPPORTED_LLM_MODELS[1], batch.payloads,
                                    BatchReply(batch.payloads, 0, "missing"), now, FALSE)
       IN  /\ ttl_cache' = done.cache
           /\ heap' = done.heap
           /\ batch' = [batch EXCEPT !.status = "retried", !.resent = done.sent]
    /\ UNCHANGED <<risk_call, conf_call>>
    /\ UNCHANGED <<response, threads, kwpos, expl>>
    /\ UNCHANGED <<headers, body_text, urls, attachments, outcome, lev, now, llm_cache,
                   llm_calls, history, held, probe>>

NextBatch == AnalyzeBatch \/ RetryBatch

SpecBatch == InitBatch /\ [][NextBatch]_vars

\* ---------------------------------------------------------------------------
\* analyze_payloads: the chunks sent to the classifier
\* ---------------------------------------------------------------------------

BatchDone == batch.status \in {"returned", "raised"}

\* whether the cache the call found served the n-th payload of the batch
ServedFromCache(n) ==
    /\ llm_utils_cache_key(SUPPORTED_LLM_MODELS[1], batch.payloads[n]) \in DOMAIN batch.cache_before
    /\ now < batch.cache_before[llm_utils_cache_key(SUPPORTED_LLM_MODELS[1], batch.payloads[n])].expires

\* the pending list: the uncached payloads of the batch, by index, in input order
PendingOfBatch ==
    SelectSeq([i \in 1..Len(batch.payloads) |-> i], LAMBDA n : ~ServedFromCache(n))

\* the payloads sent, in the order sent
SentInOrder == JoinPieces(batch.sent)

\* every call carried between 1 and _MAX_BATCH_SIZE payloads
ChunkSizesBounded ==
    \A c \in 1..Len(batch.sent) : Len(batch.sent[c]) >= 1 /\ Len(batch.sent[c]) <= _MAX_BATCH_SIZE

\* the chunks sent are contiguous slices of the pending list, in its order, from
\* its start on
SentIsPrefixOfPending ==
    /\ Len(SentInOrder) <= Len(PendingOfBatch)
    /\ SentInOrder = SubSeq(PendingOfBatch, 1, Len(SentInOrder))

C26_WitnessRaised ==
    /\ batch.status = "raised"
    /\ Len(batch.sent) = 1
    /\ Len(PendingOfBatch) > _MAX_BATCH_SIZE

\* ---------------------------------------------------------------------------
\* analyze_payloads: what a failing call leaves in the cache
\* ---------------------------------------------------------------------------

KeyOfPayload(n) == llm_utils_cache_key(SUPPORTED_LLM_MODELS[1], batch.payloads[n])

\* the entries of a cache that a lookup at the present time serves
LiveKeys(cache) == {k \in DOMAIN cache : now < cache[k].expires}

\* the chunk whose call failed: the last one sent
FailedChunk == batch.sent[Len(batch.sent)]

\* the keys the chunks before the failing one stored
EarlierKeys ==
    UNION {{KeyOfPayload(batch.sent[c][n]) : n \in 1..Len(batch.sent[c])} :
              c \in 1..(Len(batch.sent) - 1)}

\* the keys of the failing call that no earlier chunk stored
FailedKeys == {KeyOfPayload(FailedChunk[n]) : n \in 1..Len(FailedChunk)} \ EarlierKeys

\* whether a call of the classifier got a reply that fails
SomeChunkFails ==
    \E c \in 1..Len(batch.sent) : \E n \in 1..Len(batch.sent[c]) :
        batch.reply[batch.payloads[batch.sent[c][n]].id].kind # "analysis"

C30_WitnessEarlierCall ==
    /\ batch.status = "raised"
    /\ FailedKeys # {}
    /\ LiveKeys(batch.cache_before) # {}
=============================================================================
